---- MODULE Spec2Model ----
(***************************************************************************)
(* Rubedo: dependency resolution, asset linking, manifest merging, the     *)
(* build orchestrator (buildAddon) and the change watcher (watchCommand).  *)
(*                                                                         *)
(* Strings that the code inspects character by character (version         *)
(* expressions, module names) are sequences of one-character strings.      *)
(***************************************************************************)
EXTENDS Integers, Sequences, FiniteSets, TLC

VARIABLES
  version,        \* SpecClassify: the version expression under classification
  localPath,      \* SpecClassify: the dependency's localPath ("" when not set)
  cls,            \* SpecClassify: branch taken by checkoutVersion
  desc,           \* SpecClassify: branch taken by getVersionDescription
  upd,            \* SpecClassify: branch taken by hasUpdates
  manifestFile,   \* <cwd>/manifest.json
  depManifest,    \* module path -> <module path>/manifest.json
  merges,         \* times mergeManifest wrote <cwd>/manifest.json, up to MaxMerges
  moduleAssets,   \* module path -> asset directories present in the module
  projectAssets,  \* destination directory -> module names copied into it
  linkStatus,     \* outcome of the last linkDependencyAssets run
  store,          \* module path -> what the staleness check finds there
  pc,             \* process -> position inside buildAddon
  opts,           \* process -> options.skipUpdateCheck of the invocation
  manifest,       \* process -> manifest read at the start of the invocation
  result,         \* process -> what buildAddon returned or threw
  log,            \* process -> console lines of buildAddon's stages, this invocation
  cmdOut,         \* what buildCommand did with the last result
  wpc,            \* watchCommand: position
  building,       \* watchCommand: let building
  pendingBuild,   \* watchCommand: let pendingBuild
  lastBuildTime,  \* watchCommand: let lastBuildTime
  timers,         \* watchCommand: deadlines of armed setTimeout(rebuild, ...)
  watching,       \* watchCommand: watchPaths are watched (unwatch / add)
  now,            \* Date.now()
  cause,          \* what started the rebuild in flight: "event" or "timer"
  arrived,        \* events that set pendingBuild during the last rebuild
  arrivedAll,     \* events delivered while the last rebuild was in flight
  sinceStart,     \* a change event was delivered since the last rebuild started
  settled,        \* how the last rebuild that settled ended
  burst,          \* the burst of events in progress and the rebuilds it started
  repo,           \* SpecStore: what lies at the dependency's module path
  gitLog,         \* SpecStore: git and fs commands of the running install or update
  ipc,            \* SpecStore: outcome of the last install, update or check
  stale,          \* SpecStore: what hasUpdates returned
  depName,        \* SpecStore: dependency.module_name
  modulesDir,     \* SpecStore: process.env['RUBEDO_MODULES_DIR'] is set
  frames,         \* SpecCalls: the calls of cloneDependency and updateDependency in progress
  argv,           \* SpecCli: options on the command line of `rubedo build`
  repos,          \* SpecInstall: module path -> what lies there
  run,            \* SpecInstall: command process -> the command it runs, its loop position
  moduleTree,     \* SpecRelink: module path -> asset directory -> files in the module
  projectTree,    \* SpecRelink: destination directory -> files in the project
  linkRuns        \* SpecRelink: runs of linkDependencyAssets since the modules last changed

classifyVars == <<version, localPath, cls, desc, upd>>
diskVars == <<manifestFile, depManifest, merges, moduleAssets, projectAssets, linkStatus, store>>
buildVars == <<pc, opts, manifest, result, log, cmdOut>>
watchVars == <<wpc, building, pendingBuild, lastBuildTime, timers, watching, now>>
ghostVars == <<cause, arrived, arrivedAll, sinceStart, settled, burst>>
storeVars == <<repo, gitLog, ipc, stale, depName, modulesDir, frames>>
cliVars == <<argv>>
installVars == <<repos, run>>
treeVars == <<moduleTree, projectTree, linkRuns>>
vars == <<classifyVars, diskVars, buildVars, watchVars, ghostVars, storeVars, cliVars, installVars, treeVars>>

----------------------------------------------------------------------------
(* Bounds *)

MaxLen == 7

MaxDeps == 2

MaxMerges == 2

MaxBurst == 5

MaxArrived == 2

TicksPerInterval == 2

MaxTicks == 6

----------------------------------------------------------------------------
(* Version expressions: src/src/utils/git.ts *)

Digit == {"0", "1", "2", "3", "4", "5", "6", "7", "8", "9"}

HexLower == Digit \cup {"a", "b", "c", "d", "e", "f"}

Latest == <<"l", "a", "t", "e", "s", "t">>

RECURSIVE TagRun(_, _, _)
\* /^\d+\.\d+\.\d+$/ as the automaton the regular expression denotes:
\* q = 0 start, 1/3/5 inside the first/second/third digit group,
\* 2/4 just after the first/second dot, 6 dead.
TagRun(v, i, q) ==
  IF i > Len(v) THEN q
  ELSE LET c == v[i]
           q2 == IF c \in Digit
                   THEN (CASE q = 0 -> 1 [] q = 1 -> 1 [] q = 2 -> 3 [] q = 3 -> 3
                           [] q = 4 -> 5 [] q = 5 -> 5 [] OTHER -> 6)
                 ELSE IF c = "."
                   THEN (CASE q = 1 -> 2 [] q = 3 -> 4 [] OTHER -> 6)
                 ELSE 6
       IN TagRun(v, i + 1, q2)

\* version.match(/^\d+\.\d+\.\d+$/)
MatchesTag(v) == TagRun(v, 1, 0) = 5

AllHex(v) == \A i \in 1..Len(v) : v[i] \in HexLower

\* version.match(/^[0-9a-f]{40}$/)
MatchesFullHash(v) == Len(v) = 40 /\ AllHex(v)

MatchesShortHash_Loose(v) == Len(v) \in 6..8 /\ AllHex(v)

\* version.match(/^[0-9a-f]{7,8}$/)
MatchesShortHash(v) == Len(v) \in 7..8 /\ AllHex(v)

\* checkoutVersion: which branch of the if-chain runs for a dependency
\* without localPath, and the git command it issues.
CheckoutVersion(v, lp) ==
  IF lp # "" THEN [branch |-> "local", cmd |-> "none", ref |-> <<>>]
  ELSE IF v = Latest THEN [branch |-> "Latest", cmd |-> "pull", ref |-> <<>>]
  ELSE IF MatchesTag(v)
    THEN [branch |-> "Tag", cmd |-> "checkout", ref |-> <<"t", "a", "g", "s", "/", "v">> \o v]
  ELSE IF MatchesFullHash(v) THEN [branch |-> "Commit", cmd |-> "checkout", ref |-> v]
  ELSE IF MatchesShortHash(v) THEN [branch |-> "Commit", cmd |-> "checkout", ref |-> v]
  ELSE [branch |-> "Ref", cmd |-> "checkout", ref |-> v]

\* getVersionDescription: which branch produces the description.
GetVersionDescription(v, lp) ==
  IF lp # "" THEN "local"
  ELSE IF v = Latest THEN "Latest"
  ELSE IF MatchesTag(v) THEN "Tag"
  ELSE IF MatchesFullHash(v) THEN "Commit"
  ELSE IF MatchesShortHash(v) THEN "Commit"
  ELSE "Ref"

\* hasUpdates: which comparison the git part of the staleness check uses.
HasUpdatesBranch(v) ==
  IF v = Latest THEN "Latest"
  ELSE IF MatchesTag(v) THEN "Tag"
  ELSE IF MatchesFullHash(v) \/ MatchesShortHash(v) THEN "Commit"
  ELSE "Ref"

----------------------------------------------------------------------------
(* Inputs of the classification *)

Alphabet == {"1", ".", "a", "g"}

RECURSIVE StringsUpTo(_, _)
StringsUpTo(S, n) ==
  IF n = 0 THEN {<<>>}
  ELSE LET shorter == StringsUpTo(S, n - 1)
       IN shorter \cup {Append(s, c) : s \in {t \in shorter : Len(t) = n - 1}, c \in S}

Rep(c, n) == [i \in 1..n |-> c]

\* Long expressions around the full-hash length, with at most one odd character.
LongStrings ==
  LET base == {Rep(c, n) : c \in {"a", "1"}, n \in {8, 9, 39, 40, 41}}
  IN base \cup {[s EXCEPT ![i] = c] : s \in base, i \in {1, 7, 8}, c \in {"g", ".", "A"}}

LatestLike ==
  {Latest, Latest \o <<"1">>, SubSeq(Latest, 1, 5), <<"L">> \o SubSeq(Latest, 2, 6),
   <<"1", "0", ".", "2", ".", "3", "4">>, <<"1", ".", "2", ".", "3", "-", "b">>,
   <<"m", "a", "i", "n">>, <<"v", "1", ".", "2", ".", "3">>}

VersionStrings == StringsUpTo(Alphabet, MaxLen) \cup LongStrings \cup LatestLike

----------------------------------------------------------------------------
(* Module names and paths *)

RECURSIVE SplitRun(_, _, _, _)
SplitRun(s, i, cur, acc) ==
  IF i > Len(s) THEN Append(acc, cur)
  ELSE IF s[i] = "/" THEN SplitRun(s, i + 1, <<>>, Append(acc, cur))
  ELSE SplitRun(s, i + 1, Append(cur, s[i]), acc)

\* module_name.split("/")
Split(s) == SplitRun(s, 1, <<>>, <<>>)

\* const [org, repo] = module_name.split("/"): a missing element is
\* undefined, which like the empty string is falsy; both are <<>> here.
Org(module_name) == Split(module_name)[1]

Repo(module_name) ==
  IF Len(Split(module_name)) >= 2 THEN Split(module_name)[2] ELSE <<>>

\* getModulePath (utils/fs): <store root>/<owner>/<name>
GetModulePath(module_name) ==
  <<"rubedo_modules">> \o SelectSeq(Split(module_name), LAMBDA seg : seg # <<>>)

NameAX == <<"a", "/", "x">>

NameBX == <<"b", "/", "x">>

NameAY == <<"a", "/", "y">>

NameBad == <<"x">>

ModuleNames == {NameAX, NameBX, NameAY, NameBad}

ModulePaths == {GetModulePath(n) : n \in ModuleNames}

Main == <<"m", "a", "i", "n">>

Dep(name, v) == [module_name |-> name, version |-> v, localPath |-> ""]

----------------------------------------------------------------------------
(* Manifest merge: src/src/commands/build.ts, mergeManifest *)

\* An optional array field of a manifest: absent (undefined) or present.
Absent == [present |-> FALSE, items |-> <<>>]

Present(items) == [present |-> TRUE, items |-> items]

\* getRubedoDependencies (utils/fs): the manifest's rubedo_dependencies
GetRubedoDependencies(m) == m.rubedo_dependencies

DependencyExists_Never(deps, depDep) == FALSE

\* mergedManifest.dependencies.some((d) => d.module_name === depDep.module_name)
DependencyExists(deps, depDep) ==
  \E k \in 1..Len(deps) : deps[k].module_name = depDep.module_name

CapabilityExists_Never(caps, capability) == FALSE

\* mergedManifest.capabilities.includes(capability)
CapabilityExists(caps, capability) ==
  \E k \in 1..Len(caps) : caps[k] = capability

RECURSIVE PushDependencies_LastWins(_, _, _)
PushDependencies_LastWins(deps, items, i) ==
  IF i > Len(items) THEN deps
  ELSE PushDependencies_LastWins(
         IF DependencyExists(deps, items[i])
           THEN [k \in 1..Len(deps) |->
                   IF deps[k].module_name = items[i].module_name THEN items[i] ELSE deps[k]]
           ELSE Append(deps, items[i]),
         items, i + 1)

RECURSIVE PushDependencies(_, _, _)
\* for (const depDep of depManifest.dependencies) { if (!exists) push }
PushDependencies(deps, items, i) ==
  IF i > Len(items) THEN deps
  ELSE PushDependencies(
         IF DependencyExists(deps, items[i]) THEN deps ELSE Append(deps, items[i]),
         items, i + 1)

RECURSIVE PushCapabilities(_, _, _)
\* for (const capability of depManifest.capabilities) { if (!exists) push }
PushCapabilities(caps, items, i) ==
  IF i > Len(items) THEN caps
  ELSE PushCapabilities(
         IF CapabilityExists(caps, items[i]) THEN caps ELSE Append(caps, items[i]),
         items, i + 1)

\* The body of mergeManifest's loop for one dependency whose manifest exists.
MergeDependencyManifest(merged, dm) ==
  LET m1 == IF dm.dependencies.present
              THEN [merged EXCEPT !.dependencies =
                      Present(PushDependencies(merged.dependencies.items,
                                               dm.dependencies.items, 1))]
              ELSE merged
  IN IF dm.capabilities.present
       THEN [m1 EXCEPT !.capabilities =
               Present(PushCapabilities(m1.capabilities.items,
                                        dm.capabilities.items, 1))]
       ELSE m1

RECURSIVE MergeLoop(_, _, _, _)
MergeLoop(merged, rubedoDependencies, dms, i) ==
  IF i > Len(rubedoDependencies) THEN merged
  ELSE LET manifestPath == GetModulePath(rubedoDependencies[i].module_name)
       IN MergeLoop(
            IF dms[manifestPath].exists
              THEN MergeDependencyManifest(merged, dms[manifestPath])
              ELSE merged,
            rubedoDependencies, dms, i + 1)

MergeManifest_ListsOnly(m, dms) ==
  [MergeLoop(m, GetRubedoDependencies(m), dms, 1) EXCEPT !.rubedo_dependencies = <<>>]

\* mergeManifest(manifest): the merged manifest written to <cwd>/manifest.json
MergeManifest(m, dms) == MergeLoop(m, GetRubedoDependencies(m), dms, 1)

----------------------------------------------------------------------------
(* Asset linking: src/src/commands/build.ts, linkDependencyAssets *)

\* const assetDirs = new Set([...]), in insertion order
AssetDirs ==
  <<"animation_controllers", "animations", "blocks", "entities", "feature_rules",
    "features", "functions", "items", "loot_tables", "recipes", "spawn_rules",
    "structures", "texts">>

\* const namespaceDir = path.join(process.cwd(), dir, repo)
NamespaceDir(dir, module_name) == <<dir, Repo(module_name)>>

RECURSIVE LinkDirs_TextsToo(_, _, _, _)
LinkDirs_TextsToo(fs, module_name, present, j) ==
  IF j > Len(AssetDirs) THEN [fs |-> fs, status |-> "ok"]
  ELSE LET dir == AssetDirs[j]
       IN IF dir \notin present THEN LinkDirs_TextsToo(fs, module_name, present, j + 1)
          ELSE IF Org(module_name) = <<>> \/ Repo(module_name) = <<>>
            THEN [fs |-> fs, status |-> "exit"]
          ELSE LinkDirs_TextsToo(
                 fs \cup {[dest |-> NamespaceDir(dir, module_name), from |-> module_name]},
                 module_name, present, j + 1)

RECURSIVE LinkDirs(_, _, _, _)
\* The inner loop over assetDirs for one dependency. fs is the set of
\* copies made so far, each the destination and the module copied into it.
LinkDirs(fs, module_name, present, j) ==
  IF j > Len(AssetDirs) THEN [fs |-> fs, status |-> "ok"]
  ELSE LET dir == AssetDirs[j]
       IN IF dir = "texts" THEN LinkDirs(fs, module_name, present, j + 1)
          ELSE IF dir \notin present THEN LinkDirs(fs, module_name, present, j + 1)
          ELSE IF Org(module_name) = <<>> \/ Repo(module_name) = <<>>
            THEN [fs |-> fs, status |-> "exit"]
          ELSE LinkDirs(
                 fs \cup {[dest |-> NamespaceDir(dir, module_name), from |-> module_name]},
                 module_name, present, j + 1)

RECURSIVE LinkLoop(_, _, _, _)
LinkLoop(fs, dependencies, assets, i) ==
  IF i > Len(dependencies) THEN [fs |-> fs, status |-> "ok"]
  ELSE LET name == dependencies[i].module_name
           r == LinkDirs(fs, name, assets[GetModulePath(name)], 1)
       IN IF r.status = "exit" THEN r
          ELSE LinkLoop(r.fs, dependencies, assets, i + 1)

\* linkDependencyAssets(dependencies)
LinkDependencyAssets(fs, dependencies, assets) == LinkLoop(fs, dependencies, assets, 1)

----------------------------------------------------------------------------
(* Asset linking, file by file. A module tree maps an asset directory to   *)
(* whether it exists and the files in it; the project tree maps a          *)
(* destination directory that exists to the files in it, each file with    *)
(* the module its content came from.                                       *)

NoDirectory == [exists |-> FALSE, files |-> {}]

Directory(files) == [exists |-> TRUE, files |-> files]

\* fs.pathExists(path.join(modulePath, dir))
SourceExists(mtree, module_name, dir) ==
  /\ dir \in DOMAIN mtree[GetModulePath(module_name)]
  /\ mtree[GetModulePath(module_name)][dir].exists

\* The files under path.join(modulePath, dir)
SourceFiles(mtree, module_name, dir) ==
  {[name |-> <<n>>, from |-> module_name] : n \in mtree[GetModulePath(module_name)][dir].files}

CopyFileOrDir_Nested(files, tree, dest) ==
  IF dest \in DOMAIN tree
    THEN [tree EXCEPT ![dest] = @ \cup {[f EXCEPT !.name = <<dest[1]>> \o @] : f \in files}]
    ELSE [d \in DOMAIN tree \cup {dest} |-> IF d = dest THEN files ELSE tree[d]]

\* copyFileOrDir(sourcePath, namespaceDir, 'dir') (utils/fs): the destination
\* subtree is cleared or fully overwritten, never appended to.
CopyFileOrDir(files, tree, dest) ==
  [d \in DOMAIN tree \cup {dest} |-> IF d = dest THEN files ELSE tree[d]]

RECURSIVE LinkAssetDirs(_, _, _, _)
\* The inner loop over assetDirs for one dependency, on the project tree.
LinkAssetDirs(tree, module_name, mtree, j) ==
  IF j > Len(AssetDirs) THEN [tree |-> tree, status |-> "ok"]
  ELSE LET dir == AssetDirs[j]
       IN IF dir = "texts" THEN LinkAssetDirs(tree, module_name, mtree, j + 1)
          ELSE IF ~SourceExists(mtree, module_name, dir)
            THEN LinkAssetDirs(tree, module_name, mtree, j + 1)
          ELSE IF Org(module_name) = <<>> \/ Repo(module_name) = <<>>
            THEN [tree |-> tree, status |-> "exit"]
          ELSE LinkAssetDirs(
                 CopyFileOrDir(SourceFiles(mtree, module_name, dir), tree,
                               NamespaceDir(dir, module_name)),
                 module_name, mtree, j + 1)

RECURSIVE LinkAssetLoop(_, _, _, _)
LinkAssetLoop(tree, dependencies, mtree, i) ==
  IF i > Len(dependencies) THEN [tree |-> tree, status |-> "ok"]
  ELSE LET r == LinkAssetDirs(tree, dependencies[i].module_name, mtree, 1)
       IN IF r.status = "exit" THEN r
          ELSE LinkAssetLoop(r.tree, dependencies, mtree, i + 1)

\* linkDependencyAssets(dependencies), on the project tree
LinkDependencyAssetTrees(tree, dependencies, mtree) ==
  LinkAssetLoop(tree, dependencies, mtree, 1)

----------------------------------------------------------------------------
(* Staleness check: src/src/utils/git.ts, hasUpdates and checkForUpdates *)

StoreAbsent == [kind |-> "absent", target |-> "", gitStale |-> FALSE]

StoreStates ==
  {StoreAbsent,
   [kind |-> "symlink", target |-> "/local", gitStale |-> FALSE],
   [kind |-> "symlink", target |-> "/other", gitStale |-> FALSE],
   [kind |-> "dir", target |-> "", gitStale |-> FALSE],
   [kind |-> "dir", target |-> "", gitStale |-> TRUE]}

\* Every module cloned and up to date.
InstalledStore == [mp \in ModulePaths |-> [kind |-> "dir", target |-> "", gitStale |-> FALSE]]

\* hasUpdates(dependency); st is what lies at the module path. gitStale is
\* the verdict of the git comparison of lines 566-599 (an error counts as stale).
HasUpdates(dep, st) ==
  IF st.kind = "absent" THEN TRUE
  ELSE IF dep.localPath # ""
    THEN (IF st.kind = "symlink" THEN st.target # dep.localPath ELSE TRUE)
  ELSE IF st.kind = "symlink" THEN TRUE
  ELSE st.gitStale

\* checkForUpdates(dependencies)
CheckForUpdates(dependencies, st) ==
  SelectSeq(dependencies, LAMBDA d : HasUpdates(d, st[GetModulePath(d.module_name)]))

----------------------------------------------------------------------------
(* The module store: src/src/utils/git.ts, createDirectoryLink,           *)
(* cloneDependency, updateDependency, checkoutVersion, hasUpdates          *)

\* The module the store operations below are run for.
StoreModule == depName

Dev == <<"d", "e", "v">>

\* Branches of origin and the commit each has upstream; commits are named
\* by one digit, and the hash of commit c is that digit forty times.
Upstream == (Main :> "2") @@ (Dev :> "4")

\* What origin/HEAD names: the branch a clone checks out.
DefaultBranch == Main

Commits == {"1", "2", "3", "4"}

Hash(c) == Rep(c, 40)

Detached == <<>>

NoTag == <<>>

TagName(v) == <<"v">> \o v

\* git rev-parse <tag>: a lightweight tag names its commit, an annotated
\* tag names its own tag object.
RevParseTag(tag) == IF tag.annotated THEN <<"tag object", tag.name>> ELSE <<"commit", tag.commit>>

\* git rev-parse HEAD
RevParseHead(st) == <<"commit", st.head>>

RECURSIVE FirstTagAt(_, _, _)
\* for (const tag of tags.all) { if (tagCommit === currentCommit) return tag }
FirstTagAt(tags, st, i) ==
  IF i > Len(tags) THEN NoTag
  ELSE IF RevParseTag(tags[i]) = RevParseHead(st) THEN tags[i].name
  ELSE FirstTagAt(tags, st, i + 1)

\* getCurrentTag(git)
GetCurrentTag(st) == FirstTagAt(st.tags, st, 1)

\* fs.pathExists(repoPath): follows a link to its target
PathExists(st) ==
  \/ st.kind = "dir"
  \/ st.kind \in {"symlink", "junction"} /\ st.targetExists

\* (await fs.lstat(repoPath)).isSymbolicLink(): true of a junction too
IsSymbolicLink(st) == st.kind \in {"symlink", "junction"}

\* status.behind > 0: the checked-out branch lacks commits of its upstream
Behind(st) == st.branch \in DOMAIN Upstream /\ st.head # Upstream[st.branch]

IsPrefix(a, b) == Len(a) <= Len(b) /\ SubSeq(b, 1, Len(a)) = a

GitStale_ErrorsFresh(v, st, net) ==
  IF ~net \/ ~st.isRepo THEN FALSE
  ELSE IF v = Latest THEN Behind(st)
  ELSE IF MatchesTag(v) THEN GetCurrentTag(st) # TagName(v)
  ELSE IF MatchesFullHash(v) \/ MatchesShortHash(v) THEN ~IsPrefix(v, Hash(st.head))
  ELSE IF st.branch # v THEN TRUE
  ELSE Behind(st)

GitStale_ExactHash(v, st, net) ==
  IF ~net \/ ~st.isRepo THEN TRUE
  ELSE IF v = Latest THEN Behind(st)
  ELSE IF MatchesTag(v) THEN GetCurrentTag(st) # TagName(v)
  ELSE IF MatchesFullHash(v) \/ MatchesShortHash(v) THEN v # Hash(st.head)
  ELSE IF st.branch # v THEN TRUE
  ELSE Behind(st)

GitStale_BranchOnly(v, st, net) ==
  IF ~net \/ ~st.isRepo THEN TRUE
  ELSE IF v = Latest THEN Behind(st)
  ELSE IF MatchesTag(v) THEN GetCurrentTag(st) # TagName(v)
  ELSE IF MatchesFullHash(v) \/ MatchesShortHash(v) THEN ~IsPrefix(v, Hash(st.head))
  ELSE st.branch # v

\* hasUpdates, the git part (try block after git.fetch): without network
\* or repository the fetch throws, and an error counts as stale.
GitStale(v, st, net) ==
  IF ~net \/ ~st.isRepo THEN TRUE
  ELSE IF v = Latest THEN Behind(st)
  ELSE IF MatchesTag(v) THEN GetCurrentTag(st) # TagName(v)
  ELSE IF MatchesFullHash(v) \/ MatchesShortHash(v) THEN ~IsPrefix(v, Hash(st.head))
  ELSE IF st.branch # v THEN TRUE
  ELSE Behind(st)

\* hasUpdates(dependency) on what lies at the module path
HasUpdatesAt(v, lp, st, net) ==
  IF ~PathExists(st) THEN TRUE
  ELSE IF lp # ""
    THEN (IF IsSymbolicLink(st) THEN st.target # lp ELSE TRUE)
  ELSE IF IsSymbolicLink(st) THEN TRUE
  ELSE GitStale(v, st, net)

\* Nothing at the module path; tags are those of origin.
AbsentPath(tags) ==
  [kind |-> "absent", target |-> "", targetExists |-> FALSE, origin |-> "none",
   isRepo |-> FALSE, branch |-> Detached, head |-> "none",
   local |-> [b \in DOMAIN Upstream |-> "none"], tags |-> tags]

\* fs.remove(repoPath)
Removed(st) == AbsentPath(st.tags)

\* git.clone(url, repoPath): a work tree on the default branch at its upstream head
Cloned(st) ==
  [AbsentPath(st.tags) EXCEPT
     !.kind = "dir", !.origin = "clone", !.isRepo = TRUE,
     !.branch = DefaultBranch, !.head = Upstream[DefaultBranch],
     !.local = [b \in DOMAIN Upstream |-> IF b = DefaultBranch THEN Upstream[b] ELSE "none"]]

\* What createDirectoryLink leaves: a symbolic link, a junction, or a copy of
\* the local directory (a repository or not, as the local directory is).
Linked(st, lp, e) ==
  IF e.how \in {"symlink", "junction"}
    THEN [AbsentPath(st.tags) EXCEPT !.kind = e.how, !.target = lp, !.targetExists = TRUE]
    ELSE [AbsentPath(st.tags) EXCEPT
            !.kind = "dir", !.origin = "copy", !.isRepo = e.localIsRepo,
            !.branch = IF e.localIsRepo THEN Main ELSE Detached,
            !.head = IF e.localIsRepo THEN "1" ELSE "none",
            !.local = [b \in DOMAIN Upstream |-> IF e.localIsRepo /\ b = Main THEN "1" ELSE "none"]]

Result(st, cmds, status) == [st |-> st, log |-> cmds, status |-> status]

TagsPrefix == <<"t", "a", "g", "s", "/">>

TagNamed(st, name) == {i \in 1..Len(st.tags) : st.tags[i].name = name}

\* The commit a hexadecimal abbreviation names, if any.
CommitsNamed(ref) ==
  {c \in Commits : Len(ref) >= 4 /\ AllHex(ref) /\ IsPrefix(ref, Hash(c))}

\* git checkout <ref>: a branch is checked out (created from its upstream
\* when there is no local one), a tag or a commit detaches HEAD at the
\* commit, anything else is an error.
GitCheckout(ref, st) ==
  LET name == IF IsPrefix(TagsPrefix, ref) THEN SubSeq(ref, Len(TagsPrefix) + 1, Len(ref)) ELSE ref
  IN IF ref \in DOMAIN Upstream
       THEN LET tip == IF st.local[ref] = "none" THEN Upstream[ref] ELSE st.local[ref]
            IN [ok |-> TRUE, st |-> [st EXCEPT !.branch = ref, !.head = tip, !.local[ref] = tip]]
     ELSE IF TagNamed(st, name) # {}
       THEN LET i == CHOOSE j \in TagNamed(st, name) : TRUE
            IN [ok |-> TRUE, st |-> [st EXCEPT !.branch = Detached, !.head = st.tags[i].commit]]
     ELSE IF CommitsNamed(ref) # {}
       THEN LET c == CHOOSE d \in CommitsNamed(ref) : TRUE
            IN [ok |-> TRUE, st |-> [st EXCEPT !.branch = Detached, !.head = c]]
     ELSE [ok |-> FALSE, st |-> st]

\* git.pull("origin", branches.current): on a branch, the branch is brought
\* to its upstream head; with HEAD detached, branches.current is what HEAD is
\* detached at, and the pull either fails or merges nothing.
GitPull(st, e) ==
  IF st.branch \in DOMAIN Upstream
    THEN [ok |-> TRUE,
          st |-> [st EXCEPT !.head = Upstream[st.branch], !.local[st.branch] = Upstream[st.branch]]]
    ELSE [ok |-> e.detachedPull, st |-> st]

\* checkoutVersion(dependency) run on the work tree st
RunCheckoutVersion(v, lp, st, e) ==
  LET co == CheckoutVersion(v, lp)
  IN IF co.cmd = "none" THEN [ok |-> TRUE, st |-> st, log |-> <<>>]
     ELSE IF co.cmd = "pull"
       THEN LET r == GitPull(st, e)
            IN [ok |-> r.ok, st |-> r.st, log |-> << <<"pull", st.branch>> >>]
     ELSE LET r == GitCheckout(co.ref, st)
          IN [ok |-> r.ok, st |-> r.st, log |-> << <<"checkout", co.ref>> >>]

NpmInstall_Always(r, e) ==
  Result(r.st, r.log \o << <<"npm install">> >>, IF e.npm = "fails" THEN "failed" ELSE "done")

\* if (process.env['RUBEDO_MODULES_DIR']) npm install
NpmInstall(r, e) ==
  IF e.npm = "unset" THEN Result(r.st, r.log, "done")
  ELSE Result(r.st, r.log \o << <<"npm install">> >>, IF e.npm = "ok" THEN "done" ELSE "failed")

CreateDirectoryLink_AlwaysRelink(lp, st, e) ==
  IF PathExists(st)
    THEN Result(Linked(st, lp, e), << <<"remove">>, <<"link", e.how>> >>, "done")
  ELSE IF st.kind = "absent"
    THEN Result(Linked(st, lp, e), << <<"link", e.how>> >>, "done")
  ELSE IF e.onLink
    THEN Result(Linked(st, lp, [e EXCEPT !.how = "copy"]), << <<"link", "copy">> >>, "done")
    ELSE Result(st, <<>>, "failed")

\* createDirectoryLink(localPath, repoPath)
CreateDirectoryLink(lp, st, e) ==
  IF PathExists(st)
    THEN IF IsSymbolicLink(st) /\ st.target = lp
           THEN Result(st, <<>>, "done")
           ELSE Result(Linked(st, lp, e), << <<"remove">>, <<"link", e.how>> >>, "done")
  ELSE IF st.kind = "absent"
    THEN Result(Linked(st, lp, e), << <<"link", e.how>> >>, "done")
  \* a link whose target is gone is not removed: fs.symlink fails on it
  ELSE IF e.onLink
    THEN Result(Linked(st, lp, [e EXCEPT !.how = "copy"]), << <<"link", "copy">> >>, "done")
    ELSE Result(st, <<>>, "failed")

CloneAndCheckout_NoCheckout(v, lp, st, cmds, e) ==
  IF ~e.net \/ (st.kind # "absent" /\ ~e.onLink)
    THEN Result(st, cmds \o << <<"clone">> >>, "failed")
  ELSE NpmInstall(Result(Cloned(st), cmds \o << <<"clone">> >>, "done"), e)

\* cloneDependency from git.clone on: clone, checkoutVersion, npm install
CloneAndCheckout(v, lp, st, cmds, e) ==
  IF ~e.net \/ (st.kind # "absent" /\ ~e.onLink)
    THEN Result(st, cmds \o << <<"clone">> >>, "failed")
  ELSE LET c == RunCheckoutVersion(v, lp, Cloned(st), e)
           l == cmds \o << <<"clone">> >> \o c.log
       IN IF ~c.ok THEN Result(c.st, l, "failed")
          ELSE NpmInstall(Result(c.st, l, "done"), e)

\* updateDependency from git.fetch on: fetch, checkoutVersion, npm install
FetchAndCheckout(v, lp, st, cmds, e) ==
  IF ~e.net \/ ~st.isRepo
    THEN Result(st, cmds \o << <<"fetch">> >>, "failed")
  ELSE LET c == RunCheckoutVersion(v, lp, st, e)
           l == cmds \o << <<"fetch">> >> \o c.log
       IN IF ~c.ok THEN Result(c.st, l, "failed")
          ELSE NpmInstall(Result(c.st, l, "done"), e)

LocalPathExists_Unchecked(lp) == TRUE

\* fs.pathExists(localPath)
LocalPathExists(lp) == lp = "/local"

\* updateDependency(dependency); the call of cloneDependency it makes finds
\* the path absent (or a link without target) and so clones.
UpdateDependency(v, lp, st, e) ==
  IF ~PathExists(st)
    THEN IF Org(StoreModule) = <<>> THEN Result(st, <<>>, "exit")
         ELSE IF lp # ""
           THEN (IF ~LocalPathExists(lp) THEN Result(st, <<>>, "exit")
                 ELSE CreateDirectoryLink(lp, st, e))
         ELSE CloneAndCheckout(v, lp, st, <<>>, e)
  ELSE IF lp # ""
    THEN (IF ~LocalPathExists(lp) THEN Result(st, <<>>, "exit")
          ELSE CreateDirectoryLink(lp, st, e))
  ELSE IF IsSymbolicLink(st)
    THEN IF Org(StoreModule) = <<>> THEN Result(Removed(st), << <<"remove">> >>, "exit")
         ELSE CloneAndCheckout(v, lp, Removed(st), << <<"remove">> >>, e)
  ELSE FetchAndCheckout(v, lp, st, <<>>, e)

\* cloneDependency(dependency)
CloneDependency(v, lp, st, e) ==
  IF Org(StoreModule) = <<>> THEN Result(st, <<>>, "exit")
  ELSE IF lp # ""
    THEN (IF ~LocalPathExists(lp) THEN Result(st, <<>>, "exit")
          ELSE CreateDirectoryLink(lp, st, e))
  ELSE IF PathExists(st)
    THEN IF IsSymbolicLink(st)
           THEN CloneAndCheckout(v, lp, Removed(st), << <<"remove">> >>, e)
           ELSE UpdateDependency(v, lp, st, e)
  ELSE CloneAndCheckout(v, lp, st, <<>>, e)

----------------------------------------------------------------------------
(* What the build finds on disk *)

\* fs.pathExists(path.join(modulePath, dir)): nothing exists under an absent path
VisibleAssets ==
  [mp \in ModulePaths |-> IF store[mp].kind = "absent" THEN {} ELSE moduleAssets[mp]]

\* fs.pathExists(manifestPath) and fs.readJSON(manifestPath)
VisibleManifests ==
  [mp \in ModulePaths |->
     IF store[mp].kind = "absent" THEN [depManifest[mp] EXCEPT !.exists = FALSE]
     ELSE depManifest[mp]]

----------------------------------------------------------------------------
(* Build orchestrator: src/src/commands/build.ts, buildAddon and buildCommand *)

Procs == {"cli", "watch"}

Stages == {"buildSource", "linkDependencyAssets", "mergeManifest"}

NoResult == [kind |-> "none", updatedDependencies |-> <<>>]

\* if (!options.skipUpdateCheck)
ShouldCheck(skip) == ~skip

UpdatesPending_Never(dependenciesWithUpdates) == FALSE

\* if (dependenciesWithUpdates.length > 0)
UpdatesPending(dependenciesWithUpdates) == Len(dependenciesWithUpdates) > 0

NextStage_LinkFirst(stage) ==
  CASE stage = "buildSource" -> "mergeManifest"
    [] stage = "linkDependencyAssets" -> "buildSource"
    [] stage = "mergeManifest" -> "returned"

\* await buildSource(); await linkDependencyAssets(...); await mergeManifest(...);
\* return { success: true }
NextStage(stage) ==
  CASE stage = "buildSource" -> "linkDependencyAssets"
    [] stage = "linkDependencyAssets" -> "mergeManifest"
    [] stage = "mergeManifest" -> "returned"

\* the first stage buildAddon awaits
FirstStage == "buildSource"

AfterStage_Swallow(stage, ok) == NextStage(stage)

\* A stage that throws leaves the try block for catch { throw error }.
AfterStage(stage, ok) == IF ok THEN NextStage(stage) ELSE "returned"

\* The first console line of a stage.
StartLine(next) == IF next \in Stages THEN <<<<next, "start">>>> ELSE <<>>

NoManifestRead == [rest |-> "host", dependencies |-> Absent, capabilities |-> Absent,
                   rubedo_dependencies |-> <<>>]

\* buildAddon is called: it runs up to its first await, readManifest().
StartBuildAddon(p, skip) ==
  /\ pc' = [pc EXCEPT ![p] = "readManifest"]
  /\ opts' = [opts EXCEPT ![p] = skip]
  /\ UNCHANGED <<manifest, result, log>>

\* The caller has consumed what buildAddon returned or threw: the
\* invocation's locals are gone.
Forget(p) ==
  /\ pc' = [pc EXCEPT ![p] = "idle"]
  /\ opts' = [opts EXCEPT ![p] = FALSE]
  /\ manifest' = [manifest EXCEPT ![p] = NoManifestRead]
  /\ result' = [result EXCEPT ![p] = NoResult]
  /\ log' = [log EXCEPT ![p] = <<>>]

\* A stage of buildAddon settles: on to the next stage, or out of buildAddon.
Finish(p, stage, ok) ==
  LET next == AfterStage(stage, ok)
  IN /\ pc' = [pc EXCEPT ![p] = next]
     /\ log' = [log EXCEPT ![p] =
                  @ \o <<IF ok THEN <<stage, "ok">> ELSE <<stage, "error">>>> \o StartLine(next)]
     /\ result' = [result EXCEPT ![p] =
                     IF next # "returned" THEN @
                     ELSE IF ok THEN [kind |-> "success", updatedDependencies |-> <<>>]
                     ELSE [kind |-> "thrown", updatedDependencies |-> <<>>]]

\* const manifest = await readManifest(), then the skip test of line 446
ReadManifestDone(p) ==
  /\ pc[p] = "readManifest"
  /\ \E ok \in BOOLEAN :
       IF ok
         THEN /\ manifest' = [manifest EXCEPT ![p] = manifestFile]
              /\ IF ShouldCheck(opts[p])
                   THEN /\ pc' = [pc EXCEPT ![p] = "checkForUpdates"]
                        /\ UNCHANGED log
                   ELSE /\ pc' = [pc EXCEPT ![p] = FirstStage]
                        /\ log' = [log EXCEPT ![p] = @ \o StartLine(FirstStage)]
              /\ UNCHANGED result
         ELSE /\ pc' = [pc EXCEPT ![p] = "returned"]
              /\ result' = [result EXCEPT ![p] = [kind |-> "thrown", updatedDependencies |-> <<>>]]
              /\ UNCHANGED <<manifest, log>>
  /\ UNCHANGED <<opts, cmdOut, diskVars, watchVars, ghostVars, classifyVars, storeVars, cliVars, installVars, treeVars>>

\* const dependenciesWithUpdates = await checkForUpdates(rubedoDependencies)
CheckForUpdatesDone(p) ==
  /\ pc[p] = "checkForUpdates"
  /\ LET dependenciesWithUpdates ==
           CheckForUpdates(GetRubedoDependencies(manifest[p]), store)
     IN IF UpdatesPending(dependenciesWithUpdates)
          THEN /\ pc' = [pc EXCEPT ![p] = "returned"]
               /\ result' = [result EXCEPT ![p] =
                    [kind |-> "updates", updatedDependencies |-> dependenciesWithUpdates]]
               /\ UNCHANGED log
          ELSE /\ pc' = [pc EXCEPT ![p] = FirstStage]
               /\ log' = [log EXCEPT ![p] = @ \o StartLine(FirstStage)]
               /\ UNCHANGED result
  /\ UNCHANGED <<opts, manifest, cmdOut, diskVars, watchVars, ghostVars, classifyVars, storeVars, cliVars, installVars, treeVars>>

\* await buildSource(): npm run build exits with 0 or not
BuildSourceDone(p) ==
  /\ pc[p] = "buildSource"
  /\ \E exitCode \in {0, 1} : Finish(p, "buildSource", exitCode = 0)
  /\ UNCHANGED <<opts, manifest, cmdOut, diskVars, watchVars, ghostVars, classifyVars, storeVars, cliVars, installVars, treeVars>>

\* await linkDependencyAssets(rubedoDependencies): the first k dependencies
\* are linked; the run ends there with an error unless k covers them all,
\* and ends the process when a module name is invalid.
LinkDependencyAssetsDone(p) ==
  /\ pc[p] = "linkDependencyAssets"
  /\ LET deps == GetRubedoDependencies(manifest[p])
     IN \E k \in 0..Len(deps) :
          LET r == LinkDependencyAssets(projectAssets, SubSeq(deps, 1, k), VisibleAssets)
          IN /\ projectAssets' = r.fs
             /\ linkStatus' = IF r.status = "exit" THEN "exit"
                              ELSE IF k = Len(deps) THEN "ok" ELSE "error"
             /\ IF r.status = "exit"
                  THEN /\ pc' = [pc EXCEPT ![p] = "returned"]
                       /\ result' = [result EXCEPT ![p] =
                                       [kind |-> "exit", updatedDependencies |-> <<>>]]
                       /\ UNCHANGED log
                  ELSE Finish(p, "linkDependencyAssets", k = Len(deps))
  /\ UNCHANGED <<opts, manifest, cmdOut, manifestFile, depManifest, merges, moduleAssets, store,
                 watchVars, ghostVars, classifyVars, storeVars, cliVars, installVars, treeVars>>

\* await mergeManifest(manifest): reading a dependency's manifest or
\* writing the merged one may fail, and then nothing is written.
MergeManifestDone(p) ==
  /\ pc[p] = "mergeManifest"
  /\ \E ok \in BOOLEAN :
       /\ Finish(p, "mergeManifest", ok)
       /\ IF ok
            THEN /\ manifestFile' = MergeManifest(manifest[p], VisibleManifests)
                 /\ merges' = IF merges < MaxMerges THEN merges + 1 ELSE merges
            ELSE UNCHANGED <<manifestFile, merges>>
  /\ UNCHANGED <<opts, manifest, cmdOut, depManifest, moduleAssets, projectAssets, linkStatus,
                 store, watchVars, ghostVars, classifyVars, storeVars, cliVars, installVars, treeVars>>

BuildStep(p) ==
  \/ ReadManifestDone(p)
  \/ CheckForUpdatesDone(p)
  \/ BuildSourceDone(p)
  \/ LinkDependencyAssetsDone(p)
  \/ MergeManifestDone(p)

\* buildCommand(options) up to await buildAddon(...)
BuildCommand ==
  /\ pc["cli"] = "idle"
  /\ \E o \in {"true", "false", "undefined"} : StartBuildAddon("cli", o = "true")
  /\ cmdOut' = "running"
  /\ UNCHANGED <<diskVars, watchVars, ghostVars, classifyVars, storeVars, cliVars, installVars, treeVars>>

CommandOutcome_UpdatesFail(r) ==
  IF r.kind = "success" THEN "builtOk" ELSE "exit1"

\* buildCommand, what it does with what buildAddon returned or threw:
\* catch -> process.exit(1); updatesAvailable with its list -> the update
\* message; else 'Addon built successfully!'
CommandOutcome(r) ==
  IF r.kind \in {"thrown", "exit"} THEN "exit1"
  ELSE IF r.kind = "updates" THEN "updateMessage"
  ELSE "builtOk"

\* buildCommand after buildAddon settled
BuildCommandDone ==
  /\ pc["cli"] = "returned"
  /\ cmdOut' = CommandOutcome(result["cli"])
  /\ Forget("cli")
  /\ UNCHANGED <<diskVars, watchVars, ghostVars, classifyVars, storeVars, cliVars, installVars, treeVars>>

----------------------------------------------------------------------------
(* Change watcher: src/unnamed/part_001, watchCommand *)

MIN_REBUILD_INTERVAL == 2000

\* chokidar's polling interval: events of one poll arrive within it
BurstWindow == 300

TickMs == MIN_REBUILD_INTERVAL \div TicksPerInterval

MaxTime == MaxTicks * TickMs

Min(a, b) == IF a < b THEN a ELSE b

NoBurst == [n |-> 0, start |-> 0, idle |-> FALSE, cool |-> FALSE, started |-> 0]

TooSoon_Never(t, last) == FALSE

\* if (now - lastBuildTime < MIN_REBUILD_INTERVAL) return
TooSoon(t, last) == t - last < MIN_REBUILD_INTERVAL

RebuildBranch_DropWhileBuilding ==
  IF TooSoon(now, lastBuildTime) THEN "skip"
  ELSE IF building THEN "skip"
  ELSE "start"

RebuildBranch_PendingInCooldown ==
  IF TooSoon(now, lastBuildTime) THEN "pending"
  ELSE IF building THEN "pending"
  ELSE "start"

RebuildBranch_PendingFirst ==
  IF building THEN "pending"
  ELSE IF TooSoon(now, lastBuildTime) THEN "skip"
  ELSE "start"

\* Which of the three paths through rebuild() a call takes.
RebuildBranch ==
  IF TooSoon(now, lastBuildTime) THEN "skip"
  ELSE IF building THEN "pending"
  ELSE "start"

InBurst == burst.n > 0

\* rebuild(), up to its await buildAddon(); src is what called it.
Rebuild(src) ==
  /\ CASE RebuildBranch = "skip" ->
            UNCHANGED <<building, pendingBuild, lastBuildTime, watching, buildVars>>
       [] RebuildBranch = "pending" ->
            /\ pendingBuild' = TRUE
            /\ UNCHANGED <<building, lastBuildTime, watching, buildVars>>
       [] RebuildBranch = "start" ->
            /\ building' = TRUE
            /\ lastBuildTime' = now
            /\ watching' = FALSE
            /\ StartBuildAddon("watch", FALSE)
            /\ UNCHANGED <<pendingBuild, cmdOut>>
  /\ IF RebuildBranch = "start"
       THEN /\ cause' = src
            /\ arrived' = 0
            /\ arrivedAll' = 0
            /\ sinceStart' = FALSE
       ELSE /\ UNCHANGED cause
            /\ arrived' = IF src = "event" /\ RebuildBranch = "pending"
                            THEN Min(arrived + 1, MaxArrived) ELSE arrived
            /\ arrivedAll' = IF src = "event" /\ building
                               THEN Min(arrivedAll + 1, MaxArrived) ELSE arrivedAll
            /\ sinceStart' = (sinceStart \/ src = "event")
  /\ UNCHANGED settled
  /\ burst' =
       LET s == IF RebuildBranch = "start" THEN 1 ELSE 0
       IN IF src = "event" /\ ~InBurst
            THEN [n |-> 1, start |-> now, idle |-> ~building,
                  cool |-> ~TooSoon(now, lastBuildTime), started |-> s]
          ELSE IF src = "event"
            THEN [burst EXCEPT !.n = @ + 1, !.started = @ + s]
          ELSE IF InBurst THEN [burst EXCEPT !.started = @ + s]
          ELSE burst

\* watchCommand is called: await buildAddon(), the initial build
WatchCommand ==
  /\ wpc = "off"
  /\ wpc' = "initialBuild"
  /\ StartBuildAddon("watch", FALSE)
  /\ UNCHANGED <<cmdOut, diskVars, building, pendingBuild, lastBuildTime, timers,
                 watching, now, ghostVars, classifyVars, storeVars, cliVars, installVars, treeVars>>

\* The initial build settled: exit on an error, else set up the watcher.
InitialBuildDone ==
  /\ wpc = "initialBuild"
  /\ pc["watch"] = "returned"
  /\ IF result["watch"].kind \in {"thrown", "exit"}
       THEN /\ wpc' = "exited"
            /\ UNCHANGED <<building, pendingBuild, lastBuildTime, watching>>
       ELSE /\ wpc' = "watching"
            /\ building' = FALSE
            /\ pendingBuild' = FALSE
            /\ lastBuildTime' = now
            /\ watching' = TRUE
  /\ Forget("watch")
  /\ UNCHANGED <<cmdOut, diskVars, timers, now, ghostVars, classifyVars, storeVars, cliVars, installVars, treeVars>>

\* watcher.on('all', ...): a change event is delivered and calls rebuild()
Event ==
  /\ wpc = "watching"
  /\ now <= MaxTime
  /\ InBurst => burst.n < MaxBurst
  /\ Rebuild("event")
  /\ UNCHANGED <<wpc, timers, now, diskVars, classifyVars, storeVars, cliVars, installVars, treeVars>>

\* setTimeout(rebuild, MIN_REBUILD_INTERVAL) comes due and calls rebuild()
TimerFire ==
  /\ wpc = "watching"
  /\ \E d \in timers :
       /\ d <= now
       /\ timers' = timers \ {d}
  /\ Rebuild("timer")
  /\ UNCHANGED <<wpc, now, diskVars, classifyVars, storeVars, cliVars, installVars, treeVars>>

ScheduleFollowUp_None(pending, armed, t) == armed

\* if (pendingBuild) { pendingBuild = false; setTimeout(rebuild, MIN_REBUILD_INTERVAL) }
ScheduleFollowUp(pending, armed, t) ==
  IF pending THEN armed \cup {t + MIN_REBUILD_INTERVAL} ELSE armed

ResumeWatching_OnSuccess(kind) == kind = "success"

BuildingAfter_OnSuccess(kind) == kind # "success"

\* finally { building = false; ... }: whatever buildAddon returned or threw
BuildingAfter(kind) == FALSE

\* finally { ... watcher.add(watchPaths) ... }: whatever buildAddon returned or threw
ResumeWatching(kind) == TRUE

\* rebuild() after its buildAddon() settled: catch and finally
RebuildSettle ==
  /\ wpc = "watching"
  /\ building
  /\ pc["watch"] = "returned"
  /\ IF result["watch"].kind = "exit"
       THEN /\ wpc' = "exited"
            /\ UNCHANGED <<building, pendingBuild, timers, watching>>
       ELSE /\ building' = BuildingAfter(result["watch"].kind)
            /\ watching' = ResumeWatching(result["watch"].kind)
            /\ pendingBuild' = FALSE
            /\ timers' = ScheduleFollowUp(pendingBuild, timers, now)
            /\ UNCHANGED wpc
  /\ settled' = result["watch"].kind
  /\ Forget("watch")
  /\ UNCHANGED <<cmdOut, diskVars, lastBuildTime, now, cause, arrived, arrivedAll, sinceStart, burst,
                 classifyVars, storeVars, cliVars, installVars, treeVars>>

\* Time passes; a due timer runs before the clock moves on.
Tick ==
  /\ now + TickMs <= MaxTime
  /\ \A d \in timers : d > now
  /\ now' = now + TickMs
  /\ burst' = IF InBurst /\ now' - burst.start <= BurstWindow THEN burst ELSE NoBurst
  /\ UNCHANGED <<wpc, building, pendingBuild, lastBuildTime, timers, watching,
                 buildVars, diskVars, cause, arrived, arrivedAll, sinceStart, settled, classifyVars, storeVars, cliVars, installVars, treeVars>>

----------------------------------------------------------------------------
(* Initial states *)

Entry(m, v) == [module_name |-> m, version |-> v]

Host(dependencies, capabilities, rubedoDependencies) ==
  [rest |-> "host", dependencies |-> dependencies, capabilities |-> capabilities,
   rubedo_dependencies |-> rubedoDependencies]

NoManifest == [exists |-> FALSE, dependencies |-> Absent, capabilities |-> Absent]

DepManifest(dependencies, capabilities) ==
  [exists |-> TRUE, dependencies |-> dependencies, capabilities |-> capabilities]

IdleClassify ==
  /\ version = <<>>
  /\ localPath = ""
  /\ cls = "none"
  /\ desc = "none"
  /\ upd = "none"

IdleBuild ==
  /\ pc = [p \in Procs |-> "idle"]
  /\ opts = [p \in Procs |-> FALSE]
  /\ manifest = [p \in Procs |-> NoManifestRead]
  /\ result = [p \in Procs |-> NoResult]
  /\ log = [p \in Procs |-> <<>>]
  /\ cmdOut = "none"

IdleStore ==
  /\ repo = AbsentPath(<<>>)
  /\ gitLog = <<>>
  /\ ipc = "idle"
  /\ stale = "none"
  /\ depName = NameAX
  /\ modulesDir = FALSE
  /\ frames = <<>>

IdleCli == argv = <<>>

IdleInstall ==
  /\ repos = <<>>
  /\ run = <<>>

IdleTree ==
  /\ moduleTree = <<>>
  /\ projectTree = <<>>
  /\ linkRuns = "none"

IdleWatch ==
  /\ wpc = "off"
  /\ building = FALSE
  /\ pendingBuild = FALSE
  /\ lastBuildTime = 0
  /\ timers = {}
  /\ watching = FALSE
  /\ now = 0
  /\ cause = "none"
  /\ arrived = 0
  /\ arrivedAll = 0
  /\ sinceStart = FALSE
  /\ settled = "none"
  /\ burst = NoBurst

DepLocal == [module_name |-> NameBX, version |-> Main, localPath |-> "/local"]

BuildDepLists ==
  {<<>>,
   <<Dep(NameAX, Latest)>>,
   <<Dep(NameAX, Latest), Dep(NameAY, Main)>>,
   <<Dep(NameAX, Latest), DepLocal>>,
   <<Dep(NameAY, Main), Dep(NameBad, Main)>>}

\* Stores that hold something only at the paths of the listed dependencies.
StoresFor(deps) ==
  {st \in [ModulePaths -> StoreStates] :
     \A mp \in ModulePaths :
       (\A i \in 1..Len(deps) : GetModulePath(deps[i].module_name) # mp) => st[mp] = StoreAbsent}

FixedAssets ==
  [mp \in ModulePaths |->
     IF mp = GetModulePath(NameAX) THEN {"entities"}
     ELSE IF mp = GetModulePath(NameAY) THEN {"entities", "texts"}
     ELSE IF mp = GetModulePath(NameBX) THEN {"functions"}
     ELSE {"blocks"}]

FixedManifests ==
  [mp \in ModulePaths |->
     IF mp = GetModulePath(NameAX)
       THEN DepManifest(Present(<<Entry("m2", "v1")>>), Present(<<"c1">>))
     ELSE NoManifest]

\* The build command on a project whose store is in any state.
Init ==
  /\ IdleClassify
  /\ IdleBuild
  /\ IdleWatch
  /\ IdleStore
  /\ IdleCli
  /\ IdleInstall
  /\ IdleTree
  /\ \E deps \in BuildDepLists :
       /\ manifestFile = Host(Present(<<Entry("m1", "v1")>>), Absent, deps)
       /\ store \in StoresFor(deps)
  /\ depManifest = FixedManifests
  /\ merges = 0
  /\ moduleAssets = FixedAssets
  /\ projectAssets = {}
  /\ linkStatus = "none"

Next ==
  \/ BuildCommand
  \/ BuildCommandDone
  \/ BuildStep("cli")

Spec == Init /\ [][Next]_vars

----------------------------------------------------------------------------
(* The command line: src/src/utils/messages.ts, program.command("build") *)

SkipUpdateCheckFlag == <<"--skip-update-check">>

\* Options the build command declares with .option(...): none.
BuildOptions == {}

\* commander: an option the command does not declare is an error and the
\* action handler is not called.
UnknownOptions(args) == {i \in 1..Len(args) : args[i] \notin BuildOptions}

\* The options object commander hands to the action handler.
ParsedSkipUpdateCheck(args) ==
  "--skip-update-check" \in BuildOptions
    /\ \E i \in 1..Len(args) : args[i] = "--skip-update-check"

\* `rubedo build [args]`: program.parse(process.argv) and, when the
\* arguments are accepted, buildCommand(options) up to its await buildAddon
RubedoBuild ==
  /\ pc["cli"] = "idle"
  /\ \E args \in {<<>>, SkipUpdateCheckFlag} :
       /\ argv' = args
       /\ IF UnknownOptions(args) # {}
            THEN /\ cmdOut' = "unknownOption"
                 /\ UNCHANGED <<pc, opts, manifest, result, log>>
            ELSE /\ cmdOut' = "running"
                 /\ StartBuildAddon("cli", ParsedSkipUpdateCheck(args))
  /\ UNCHANGED <<diskVars, watchVars, ghostVars, classifyVars, storeVars, installVars, treeVars>>

NextCli ==
  \/ RubedoBuild
  \/ BuildCommandDone
  \/ BuildStep("cli")

SpecCli == Init /\ [][NextCli]_vars

----------------------------------------------------------------------------
(* The watcher, with the build command run by hand in the same project *)

WatchDepLists == {<<>>, <<Dep(NameAX, Latest)>>}

InitWatch ==
  /\ IdleClassify
  /\ IdleBuild
  /\ IdleWatch
  /\ IdleStore
  /\ IdleCli
  /\ IdleInstall
  /\ IdleTree
  /\ \E deps \in WatchDepLists :
       /\ manifestFile = Host(Present(<<Entry("m1", "v1")>>), Absent, deps)
       /\ store \in StoresFor(deps)
  /\ depManifest = FixedManifests
  /\ merges = 0
  /\ moduleAssets = FixedAssets
  /\ projectAssets = {}
  /\ linkStatus = "none"

NextWatch ==
  \/ WatchCommand
  \/ InitialBuildDone
  \/ Event
  \/ TimerFire
  \/ RebuildSettle
  \/ Tick
  \/ BuildStep("watch")

SpecWatch == InitWatch /\ [][NextWatch]_vars

\* After the last change event the clock runs on for as long as a
\* setTimeout(rebuild, ...) is armed, so that every armed timer comes due.
Overtime ==
  /\ now + TickMs > MaxTime
  /\ timers # {}
  /\ \A d \in timers : d > now
  /\ now' = now + TickMs
  /\ burst' = NoBurst
  /\ UNCHANGED <<wpc, building, pendingBuild, lastBuildTime, timers, watching,
                 buildVars, diskVars, cause, arrived, arrivedAll, sinceStart, settled, classifyVars, storeVars, cliVars, installVars, treeVars>>

NextWatchFair ==
  \/ WatchCommand
  \/ InitialBuildDone
  \/ Event
  \/ TimerFire
  \/ RebuildSettle
  \/ Tick
  \/ Overtime
  \/ BuildStep("watch")

\* The event loop runs what is due: buildAddon's awaits settle, due timers
\* fire, time passes. Change events come as the file system pleases.
SpecWatchFair ==
  /\ InitWatch
  /\ [][NextWatchFair]_vars
  /\ WF_vars(InitialBuildDone)
  /\ WF_vars(BuildStep("watch"))
  /\ WF_vars(RebuildSettle)
  /\ WF_vars(TimerFire)
  /\ WF_vars(Tick)
  /\ WF_vars(Overtime)

NextShared ==
  \/ WatchCommand
  \/ InitialBuildDone
  \/ Event
  \/ TimerFire
  \/ RebuildSettle
  \/ Tick
  \/ BuildStep("watch")
  \/ BuildCommand
  \/ BuildCommandDone
  \/ BuildStep("cli")

\* One installed, up-to-date dependency: every build runs its stages.
InitShared ==
  /\ IdleClassify
  /\ IdleBuild
  /\ IdleWatch
  /\ IdleStore
  /\ IdleCli
  /\ IdleInstall
  /\ IdleTree
  /\ manifestFile = Host(Present(<<Entry("m1", "v1")>>), Absent, <<Dep(NameAX, Latest)>>)
  /\ store = InstalledStore
  /\ depManifest = FixedManifests
  /\ merges = 0
  /\ moduleAssets = FixedAssets
  /\ projectAssets = {}
  /\ linkStatus = "none"

SpecShared == InitShared /\ [][NextShared]_vars

----------------------------------------------------------------------------
(* mergeManifest on its own: consecutive builds of one project *)

Entries == {Entry("m1", "v1"), Entry("m1", "v2"), Entry("m2", "v1"), Entry("m3", "v1")}

HostDependencies ==
  {Absent} \cup {Present(items) : items \in StringsUpTo(Entries, MaxDeps)}

HostCapabilities ==
  {Absent, Present(<<>>), Present(<<"c1">>), Present(<<"c1", "c1">>), Present(<<"c1", "c2">>)}

ManifestsOfAX ==
  {NoManifest} \cup
  {DepManifest(d, c) :
     d \in {Absent, Present(<<>>), Present(<<Entry("m1", "v2")>>),
            Present(<<Entry("m2", "v1"), Entry("m2", "v1")>>),
            Present(<<Entry("m1", "v1"), Entry("m3", "v1")>>)},
     c \in {Absent, Present(<<"c1">>), Present(<<"c2", "c2">>)}}

ManifestsOfAY ==
  {NoManifest,
   DepManifest(Present(<<Entry("m2", "v1")>>), Present(<<"c2", "c3">>)),
   DepManifest(Present(<<Entry("m3", "v1"), Entry("m1", "v2")>>), Absent)}

MergeDepLists ==
  {<<>>, <<Dep(NameAX, Main)>>, <<Dep(NameAX, Main), Dep(NameAY, Main)>>,
   <<Dep(NameAY, Main), Dep(NameAX, Main)>>}

InitMerge ==
  /\ IdleClassify
  /\ IdleBuild
  /\ IdleWatch
  /\ IdleStore
  /\ IdleCli
  /\ IdleInstall
  /\ IdleTree
  /\ \E d \in HostDependencies, c \in HostCapabilities, deps \in MergeDepLists :
       manifestFile = Host(d, c, deps)
  /\ \E ax \in ManifestsOfAX, ay \in ManifestsOfAY :
       depManifest = [mp \in ModulePaths |->
                        IF mp = GetModulePath(NameAX) THEN ax
                        ELSE IF mp = GetModulePath(NameAY) THEN ay
                        ELSE NoManifest]
  /\ store = InstalledStore
  /\ merges = 0
  /\ moduleAssets = FixedAssets
  /\ projectAssets = {}
  /\ linkStatus = "none"

\* readManifest() and then mergeManifest(manifest), as the next build runs them
MergeManifestAgain ==
  /\ merges < MaxMerges
  /\ manifestFile' = MergeManifest(manifestFile, VisibleManifests)
  /\ merges' = merges + 1
  /\ UNCHANGED <<depManifest, moduleAssets, projectAssets, linkStatus, store,
                 buildVars, watchVars, ghostVars, classifyVars, storeVars, cliVars, installVars, treeVars>>

NextMerge ==
  \/ MergeManifestAgain

SpecMerge == InitMerge /\ [][NextMerge]_vars

----------------------------------------------------------------------------
(* linkDependencyAssets on any dependency list: a build that has compiled *)

LinkedDirs == {"entities", "texts"}

LinkDepLists ==
  UNION {[1..m -> {Dep(name, Main) : name \in ModuleNames}] : m \in 0..MaxDeps}

InitLink ==
  /\ IdleClassify
  /\ IdleWatch
  /\ IdleStore
  /\ IdleCli
  /\ IdleInstall
  /\ IdleTree
  /\ \E deps \in LinkDepLists :
       /\ manifestFile = Host(Absent, Absent, deps)
       /\ manifest = [p \in Procs |-> IF p = "cli" THEN manifestFile ELSE NoManifestRead]
  /\ pc = [p \in Procs |-> IF p = "cli" THEN "linkDependencyAssets" ELSE "idle"]
  /\ opts = [p \in Procs |-> FALSE]
  /\ result = [p \in Procs |-> NoResult]
  /\ log = [p \in Procs |->
              IF p = "cli"
                THEN <<<<"buildSource", "start">>, <<"buildSource", "ok">>,
                       <<"linkDependencyAssets", "start">>>>
              ELSE <<>>]
  /\ cmdOut = "running"
  /\ store = InstalledStore
  /\ depManifest = [mp \in ModulePaths |-> NoManifest]
  /\ merges = 0
  /\ moduleAssets \in [ModulePaths -> SUBSET LinkedDirs]
  /\ projectAssets = {}
  /\ linkStatus = "none"

NextLink ==
  \/ LinkDependencyAssetsDone("cli")

SpecLink == InitLink /\ [][NextLink]_vars

----------------------------------------------------------------------------
(* linkDependencyAssets run again and again on one project, while updates  *)
(* of the dependencies change what their modules hold                      *)

FileNames == {"f", "g"}

\* What a module can hold in an asset directory.
DirectoryStates(dir) ==
  IF dir = "texts" THEN {NoDirectory, Directory({"f"})}
  ELSE {NoDirectory} \cup {Directory(fs) : fs \in SUBSET FileNames}

RelinkDepLists ==
  {<<Dep(NameAX, Main)>>,
   <<Dep(NameAX, Main), Dep(NameAY, Main)>>,
   <<Dep(NameAX, Main), Dep(NameBX, Main)>>,
   <<Dep(NameAY, Main), Dep(NameBad, Main)>>}

Declared(dependencies) ==
  {GetModulePath(dependencies[i].module_name) : i \in 1..Len(dependencies)}

InitRelink ==
  /\ IdleClassify
  /\ IdleBuild
  /\ IdleWatch
  /\ IdleStore
  /\ IdleCli
  /\ IdleInstall
  /\ \E dependencies \in RelinkDepLists :
       /\ manifestFile = Host(Absent, Absent, dependencies)
       /\ \E e \in [Declared(dependencies) -> DirectoryStates("entities")],
             t \in [Declared(dependencies) -> DirectoryStates("texts")] :
            moduleTree = [mp \in ModulePaths |-> [dir \in LinkedDirs |->
                            IF mp \notin Declared(dependencies) THEN NoDirectory
                            ELSE IF dir = "texts" THEN t[mp] ELSE e[mp]]]
  /\ projectTree = <<>>
  /\ linkRuns = "none"
  /\ store = InstalledStore
  /\ depManifest = [mp \in ModulePaths |-> NoManifest]
  /\ merges = 0
  /\ moduleAssets = FixedAssets
  /\ projectAssets = {}
  /\ linkStatus = "none"

\* await linkDependencyAssets(dependencies), as a build makes it
LinkAssets ==
  /\ LET r == LinkDependencyAssetTrees(projectTree, GetRubedoDependencies(manifestFile), moduleTree)
     IN /\ projectTree' = r.tree
        /\ linkStatus' = r.status
  /\ linkRuns' = IF linkRuns = "none" THEN "once" ELSE "again"
  /\ UNCHANGED <<moduleTree, manifestFile, depManifest, merges, moduleAssets, projectAssets, store,
                 classifyVars, buildVars, watchVars, ghostVars, storeVars, cliVars, installVars>>

\* An update checks out a version of a declared module in which an asset
\* directory holds other files, or is gone, or is new.
UpstreamChange ==
  /\ \E mp \in Declared(GetRubedoDependencies(manifestFile)), dir \in LinkedDirs :
       \E d \in DirectoryStates(dir) :
         /\ d # moduleTree[mp][dir]
         /\ moduleTree' = [moduleTree EXCEPT ![mp][dir] = d]
  /\ linkRuns' = "none"
  /\ UNCHANGED <<projectTree, diskVars, classifyVars, buildVars, watchVars, ghostVars, storeVars,
                 cliVars, installVars>>

NextRelink ==
  \/ LinkAssets
  \/ UpstreamChange

SpecRelink == InitRelink /\ [][NextRelink]_vars

----------------------------------------------------------------------------
(* Classification of one version expression *)

InitClassify ==
  /\ version \in VersionStrings
  /\ localPath \in {"", "/local"}
  /\ cls = "none"
  /\ desc = "none"
  /\ upd = "none"
  /\ IdleBuild
  /\ IdleWatch
  /\ IdleStore
  /\ IdleCli
  /\ IdleInstall
  /\ IdleTree
  /\ manifestFile = Host(Absent, Absent, <<>>)
  /\ store = InstalledStore
  /\ depManifest = [mp \in ModulePaths |-> NoManifest]
  /\ merges = 0
  /\ moduleAssets = FixedAssets
  /\ projectAssets = {}
  /\ linkStatus = "none"

\* checkoutVersion, getVersionDescription and hasUpdates on the same dependency
Classify ==
  /\ cls = "none"
  /\ cls' = CheckoutVersion(version, localPath).branch
  /\ desc' = GetVersionDescription(version, localPath)
  /\ upd' = HasUpdatesBranch(version)
  /\ UNCHANGED <<version, localPath, diskVars, buildVars, watchVars, ghostVars,
                 storeVars, cliVars, installVars, treeVars>>

NextClassify ==
  \/ Classify

SpecClassify == InitClassify /\ [][NextClassify]_vars

----------------------------------------------------------------------------
(* Install, update and staleness check of one dependency *)

V100 == <<"1", ".", "0", ".", "0">>

V090 == <<"0", ".", "9", ".", "0">>

V200 == <<"2", ".", "0", ".", "0">>

StoreVersions == {V100, V200, Latest, Main, Dev, Rep("2", 7), Rep("1", 40)}

StoreLocalPaths == {"", "/local", "/gone"}

\* module_name of the declared dependency: owner/name, a name of one
\* segment, a name without owner
NameNoOrg == <<"/", "x">>

StoreModules == {NameAX, NameBad, NameNoOrg}

Lightweight(v, c) == [name |-> TagName(v), annotated |-> FALSE, commit |-> c]

Annotated(v, c) == [name |-> TagName(v), annotated |-> TRUE, commit |-> c]

\* Tags of origin, in the order git.tags() lists them.
TagLists ==
  { << Lightweight(V100, "1") >>,
    << Annotated(V100, "1") >>,
    << Lightweight(V090, "1"), Lightweight(V100, "1") >>,
    << Lightweight(V100, "1"), Lightweight(V200, "2") >> }

\* A clone with the checkout an earlier install or update left.
CloneAt(tags, branch, head, mainTip, devTip) ==
  [Cloned(AbsentPath(tags)) EXCEPT
     !.branch = branch, !.head = head,
     !.local = (Main :> mainTip) @@ (Dev :> devTip)]

\* What an earlier install or update can have left at the module path.
StorePaths ==
  UNION { { AbsentPath(t) }
          \cup { [AbsentPath(t) EXCEPT !.kind = k, !.target = "/local", !.targetExists = TRUE] :
                   k \in {"symlink", "junction"} }
          \cup { [AbsentPath(t) EXCEPT !.kind = k, !.target = "/gone", !.targetExists = FALSE] :
                   k \in {"symlink", "junction"} }
          \cup { Linked(AbsentPath(t), "/local",
                        [how |-> "copy", localIsRepo |-> r]) : r \in BOOLEAN }
          \cup { CloneAt(t, Main, "1", "1", "none"), CloneAt(t, Main, "2", "2", "none"),
                 CloneAt(t, Dev, "3", "2", "3"), CloneAt(t, Dev, "4", "1", "4"),
                 CloneAt(t, Detached, "1", "2", "none"), CloneAt(t, Detached, "2", "1", "none") }
        : t \in TagLists }

\* What the run of a command meets outside the store: the network, the way
\* a directory link can be made, RUBEDO_MODULES_DIR and npm, and the
\* outcome of the operations whose result git and the file system decide.
\* localIsRepo is consulted only by a copy, npm fails only once the network answered.
Envs ==
  {e \in [net : BOOLEAN, how : {"symlink", "junction", "copy"}, localIsRepo : BOOLEAN,
          npm : {"unset", "ok", "fails"}, onLink : BOOLEAN, detachedPull : BOOLEAN] :
     /\ e.how # "copy" => ~e.localIsRepo
     /\ ~e.net => e.npm # "fails" /\ ~e.detachedPull}

\* The environments of a process: npm is reached exactly with RUBEDO_MODULES_DIR set.
EnvsOf(set) == {e \in Envs : e.npm = "unset" <=> ~set}

InitStore ==
  /\ version \in StoreVersions
  /\ localPath \in StoreLocalPaths
  /\ cls = "none"
  /\ desc = "none"
  /\ upd = "none"
  /\ repo \in StorePaths
  /\ depName \in StoreModules
  /\ depName # NameAX => version \in {Main, V100} /\ repo.tags = << Lightweight(V100, "1") >>
  /\ modulesDir \in BOOLEAN
  /\ modulesDir => depName = NameAX /\ repo.tags = << Lightweight(V100, "1") >>
  /\ frames = <<>>
  /\ gitLog = <<>>
  /\ ipc = "idle"
  /\ stale = "none"
  /\ IdleBuild
  /\ IdleWatch
  /\ IdleCli
  /\ IdleInstall
  /\ IdleTree
  /\ manifestFile = Host(Absent, Absent, <<>>)
  /\ store = InstalledStore
  /\ depManifest = [mp \in ModulePaths |-> NoManifest]
  /\ merges = 0
  /\ moduleAssets = FixedAssets
  /\ projectAssets = {}
  /\ linkStatus = "none"

\* rubedo install: cloneDependency for the declared dependency
InstallCommand ==
  /\ ipc = "idle"
  /\ \E e \in EnvsOf(modulesDir) :
       LET r == CloneDependency(version, localPath, repo, e)
       IN /\ repo' = r.st
          /\ gitLog' = r.log
          /\ ipc' = IF r.status = "done" THEN "installed" ELSE r.status
  /\ UNCHANGED <<stale, depName, modulesDir, frames, classifyVars, diskVars, buildVars, watchVars, ghostVars, cliVars, installVars, treeVars>>

\* rubedo update: updateDependency for the declared dependency
UpdateCommand ==
  /\ ipc = "idle"
  /\ \E e \in EnvsOf(modulesDir) :
       LET r == UpdateDependency(version, localPath, repo, e)
       IN /\ repo' = r.st
          /\ gitLog' = r.log
          /\ ipc' = IF r.status = "done" THEN "updated" ELSE r.status
  /\ UNCHANGED <<stale, depName, modulesDir, frames, classifyVars, diskVars, buildVars, watchVars, ghostVars, cliVars, installVars, treeVars>>

\* hasUpdates(dependency) on the store as it is
Check ==
  /\ ipc = "idle"
  /\ \E net \in BOOLEAN :
       /\ stale' = HasUpdatesAt(version, localPath, repo, net)
       /\ ipc' = IF net THEN "checked" ELSE "checked offline"
  /\ UNCHANGED <<repo, gitLog, depName, modulesDir, frames, classifyVars, diskVars, buildVars, watchVars, ghostVars, cliVars, installVars, treeVars>>

\* The next command reads the manifest anew: the dependency as declared then.
ReadManifestAgain ==
  /\ ipc # "idle"
  /\ ipc' = "idle"
  /\ version' \in StoreVersions
  /\ localPath' \in StoreLocalPaths
  /\ gitLog' = <<>>
  /\ stale' = "none"
  /\ UNCHANGED <<repo, depName, modulesDir, frames, cls, desc, upd, diskVars, buildVars, watchVars, ghostVars, cliVars, installVars, treeVars>>

NextStore ==
  \/ InstallCommand
  \/ UpdateCommand
  \/ Check
  \/ ReadManifestAgain

SpecStore == InitStore /\ [][NextStore]_vars

----------------------------------------------------------------------------
(* cloneDependency and updateDependency call by call: each call looks at   *)
(* the module path anew                                                    *)

CloneHandsOver_Lstat(lp, st) == lp = "" /\ st.kind # "absent"

\* cloneDependency calls updateDependency: no local override, and the
\* module path exists and is no link
CloneHandsOver(lp, st) == lp = "" /\ PathExists(st) /\ ~IsSymbolicLink(st)

\* updateDependency calls cloneDependency at once: nothing at the module path
UpdateHandsOver(st) == ~PathExists(st)

\* updateDependency removes a link left by an earlier override and then
\* calls cloneDependency
UpdateReplacesLink(lp, st) == PathExists(st) /\ lp = "" /\ IsSymbolicLink(st)

InitCalls ==
  /\ version \in StoreVersions
  /\ localPath \in StoreLocalPaths
  /\ cls = "none"
  /\ desc = "none"
  /\ upd = "none"
  /\ repo \in StorePaths
  /\ depName \in StoreModules
  /\ depName # NameAX => version \in {Main, V100} /\ repo.tags = << Lightweight(V100, "1") >>
  /\ modulesDir = FALSE
  /\ frames = <<>>
  /\ gitLog = <<>>
  /\ ipc = "idle"
  /\ stale = "none"
  /\ IdleBuild
  /\ IdleWatch
  /\ IdleCli
  /\ IdleInstall
  /\ IdleTree
  /\ manifestFile = Host(Absent, Absent, <<>>)
  /\ store = InstalledStore
  /\ depManifest = [mp \in ModulePaths |-> NoManifest]
  /\ merges = 0
  /\ moduleAssets = FixedAssets
  /\ projectAssets = {}
  /\ linkStatus = "none"

\* What a call that has run to its end leaves: the module path, the
\* commands run so far, and how the outermost call's command reports it.
Finished(r) ==
  /\ repo' = r.st
  /\ gitLog' = r.log
  /\ ipc' = IF r.status # "done" THEN r.status
            ELSE IF frames[1] = "cloneDependency" THEN "installed" ELSE "updated"
  /\ UNCHANGED frames

\* installCommand calls cloneDependency, updateCommand calls updateDependency
CallDependency ==
  /\ ipc = "idle"
  /\ frames = <<>>
  /\ \E f \in {"cloneDependency", "updateDependency"} : frames' = <<f>>
  /\ ipc' = "running"
  /\ UNCHANGED <<repo, gitLog, stale, depName, modulesDir, classifyVars, diskVars, buildVars,
                 watchVars, ghostVars, cliVars, installVars, treeVars>>

\* The body of cloneDependency, up to its call of updateDependency or to its end
CloneDependencyBody ==
  /\ ipc = "running"
  /\ frames[Len(frames)] = "cloneDependency"
  /\ \E e \in EnvsOf(modulesDir) :
       IF Org(StoreModule) = <<>> THEN Finished(Result(repo, gitLog, "exit"))
       ELSE IF localPath # ""
         THEN (IF ~LocalPathExists(localPath) THEN Finished(Result(repo, gitLog, "exit"))
               ELSE LET r == CreateDirectoryLink(localPath, repo, e)
                    IN Finished(Result(r.st, gitLog \o r.log, r.status)))
       ELSE IF CloneHandsOver(localPath, repo)
         THEN /\ frames' = Append(frames, "updateDependency")
              /\ UNCHANGED <<repo, gitLog, ipc>>
       ELSE IF PathExists(repo)
         THEN Finished(CloneAndCheckout(version, localPath, Removed(repo),
                                        gitLog \o << <<"remove">> >>, e))
       ELSE Finished(CloneAndCheckout(version, localPath, repo, gitLog, e))
  /\ UNCHANGED <<stale, depName, modulesDir, classifyVars, diskVars, buildVars,
                 watchVars, ghostVars, cliVars, installVars, treeVars>>

\* The body of updateDependency, up to its call of cloneDependency or to its end
UpdateDependencyBody ==
  /\ ipc = "running"
  /\ frames[Len(frames)] = "updateDependency"
  /\ \E e \in EnvsOf(modulesDir) :
       IF UpdateHandsOver(repo)
         THEN /\ frames' = Append(frames, "cloneDependency")
              /\ UNCHANGED <<repo, gitLog, ipc>>
       ELSE IF localPath # ""
         THEN (IF ~LocalPathExists(localPath) THEN Finished(Result(repo, gitLog, "exit"))
               ELSE LET r == CreateDirectoryLink(localPath, repo, e)
                    IN Finished(Result(r.st, gitLog \o r.log, r.status)))
       ELSE IF UpdateReplacesLink(localPath, repo)
         THEN /\ repo' = Removed(repo)
              /\ gitLog' = gitLog \o << <<"remove">> >>
              /\ frames' = Append(frames, "cloneDependency")
              /\ UNCHANGED ipc
       ELSE Finished(FetchAndCheckout(version, localPath, repo, gitLog, e))
  /\ UNCHANGED <<stale, depName, modulesDir, classifyVars, diskVars, buildVars,
                 watchVars, ghostVars, cliVars, installVars, treeVars>>

\* A call that has ended returns, or throws on, to its caller, which
\* ends with it; process.exit returns to nobody.
ReturnToCaller ==
  /\ ipc \notin {"idle", "running", "exit"}
  /\ frames # <<>>
  /\ frames' = SubSeq(frames, 1, Len(frames) - 1)
  /\ UNCHANGED <<repo, gitLog, ipc, stale, depName, modulesDir, classifyVars, diskVars, buildVars,
                 watchVars, ghostVars, cliVars, installVars, treeVars>>

NextCalls ==
  \/ CallDependency
  \/ CloneDependencyBody
  \/ UpdateDependencyBody
  \/ ReturnToCaller

\* A call in progress goes on: the event loop runs what has settled.
SpecCallsFair == InitCalls /\ [][NextCalls]_vars /\ WF_vars(NextCalls)

----------------------------------------------------------------------------
(* rubedo install and rubedo update over the declared dependencies:        *)
(* src/unnamed/part_004 installCommand, src/unnamed/part_003 updateCommand.*)
(* Two commands can be running at a time (two terminals).                  *)

Commands == {"first", "second"}

NoRun ==
  [cmd |-> "none", deps |-> <<>>, at |-> 0, inside |-> FALSE, status |-> "idle", log |-> <<>>]

\* Declared dependencies; their identities are well-formed, so the
\* identity test of cloneDependency passes for each.
InstallDepLists ==
  {<<>>,
   <<Dep(NameAX, Main)>>,
   <<Dep(NameAX, Main), Dep(NameAY, V100)>>,
   <<DepLocal, Dep(NameAX, Main)>>}

InstallTags == << Lightweight(V100, "1") >>

\* What an earlier command can have left at a module path: nothing, a
\* clone behind origin, a copy of a local directory that is no repository.
InstallPathStates ==
  { AbsentPath(InstallTags),
    CloneAt(InstallTags, Main, "1", "1", "none"),
    Linked(AbsentPath(InstallTags), "/local", [how |-> "copy", localIsRepo |-> FALSE]) }

InitInstall ==
  /\ IdleClassify
  /\ IdleBuild
  /\ IdleWatch
  /\ IdleStore
  /\ IdleCli
  /\ IdleTree
  /\ \E l \in InstallDepLists :
       /\ manifestFile = Host(Absent, Absent, l)
       /\ repos \in [ModulePaths -> InstallPathStates]
       /\ \A mp \in ModulePaths :
            (\A i \in 1..Len(l) : GetModulePath(l[i].module_name) # mp)
              => repos[mp] = AbsentPath(InstallTags)
  /\ run = [p \in Commands |-> NoRun]
  /\ store = InstalledStore
  /\ depManifest = [mp \in ModulePaths |-> NoManifest]
  /\ merges = 0
  /\ moduleAssets = FixedAssets
  /\ projectAssets = {}
  /\ linkStatus = "none"

\* installCommand / updateCommand up to the loop: the manifest is read and
\* with no dependency declared the command returns at once.
StartCommand(p, c) ==
  /\ run[p].status = "idle"
  /\ LET dependencies == GetRubedoDependencies(manifestFile)
     IN run' = [run EXCEPT ![p] =
                  IF Len(dependencies) = 0
                    THEN [NoRun EXCEPT !.cmd = c, !.status = "empty"]
                    ELSE [NoRun EXCEPT !.cmd = c, !.deps = dependencies, !.at = 1,
                                       !.status = "running"]]
  /\ UNCHANGED <<repos, classifyVars, diskVars, buildVars, watchVars, ghostVars, storeVars,
                 cliVars, treeVars>>

\* for (const dependency of dependencies) await ...: the call for the
\* dependency at hand is made and is in flight.
EnterDependency(p) ==
  /\ run[p].status = "running"
  /\ ~run[p].inside
  /\ run' = [run EXCEPT ![p].inside = TRUE]
  /\ UNCHANGED <<repos, classifyVars, diskVars, buildVars, watchVars, ghostVars, storeVars,
                 cliVars, treeVars>>

LoopNext_KeepGoing(r, entry) ==
  IF r.at = Len(r.deps)
    THEN [r EXCEPT !.inside = FALSE, !.log = Append(@, entry), !.status = "done"]
    ELSE [r EXCEPT !.inside = FALSE, !.log = Append(@, entry), !.at = @ + 1]

\* What the loop does when the awaited call settles: process.exit(1) ends
\* the process, a rejection leaves the loop through catch and is rethrown,
\* otherwise the next dependency follows, and the success line the last.
LoopNext(r, entry) ==
  IF entry.status = "exit"
    THEN [r EXCEPT !.inside = FALSE, !.log = Append(@, entry), !.status = "exit"]
  ELSE IF entry.status # "done"
    THEN [r EXCEPT !.inside = FALSE, !.log = Append(@, entry), !.status = "threw"]
  ELSE IF r.at = Len(r.deps)
    THEN [r EXCEPT !.inside = FALSE, !.log = Append(@, entry), !.status = "done"]
  ELSE [r EXCEPT !.inside = FALSE, !.log = Append(@, entry), !.at = @ + 1]

\* The call in flight settles: cloneDependency (install) or updateDependency
\* (update) has acted on the module path as it found it.
LeaveDependency(p) ==
  /\ run[p].inside
  /\ \E e \in EnvsOf(modulesDir) :
       LET d == run[p].deps[run[p].at]
           mp == GetModulePath(d.module_name)
           r == IF run[p].cmd = "install"
                  THEN CloneDependency(d.version, d.localPath, repos[mp], e)
                  ELSE UpdateDependency(d.version, d.localPath, repos[mp], e)
       IN /\ repos' = [repos EXCEPT ![mp] = r.st]
          /\ run' = [run EXCEPT ![p] =
                       LoopNext(@, [name |-> d.module_name, cmds |-> r.log, status |-> r.status])]
  /\ UNCHANGED <<classifyVars, diskVars, buildVars, watchVars, ghostVars, storeVars,
                 cliVars, treeVars>>

NextInstall ==
  \/ \E p \in Commands, c \in {"install", "update"} : StartCommand(p, c)
  \/ \E p \in Commands : EnterDependency(p)
  \/ \E p \in Commands : LeaveDependency(p)

SpecInstall == InitInstall /\ [][NextInstall]_vars

----------------------------------------------------------------------------
(* Properties of buildAddon *)

Last(s) == s[Len(s)]

\* C1: when buildAddon runs its staleness check (no skip option) and the
\* check returns a non-empty list, the invocation returns at once: no
\* compile, link or merge stage has run in it, and the result carries
\* exactly the list the check returned.
C1_StaleDependenciesHaltBuild ==
  [][\A p \in Procs :
       LET pending == CheckForUpdates(GetRubedoDependencies(manifest[p]), store)
       IN (pc[p] = "checkForUpdates" /\ ~opts[p] /\ Len(pending) > 0
           /\ pc'[p] # "checkForUpdates")
          => /\ pc'[p] = "returned"
             /\ log'[p] = <<>>
             /\ result'[p] = [kind |-> "updates", updatedDependencies |-> pending]
             /\ manifestFile' = manifestFile
             /\ projectAssets' = projectAssets]_vars

C1_Witness ==
  /\ pc["cli"] = "returned"
  /\ ~opts["cli"]
  /\ result["cli"].kind = "updates"
  /\ Len(result["cli"].updatedDependencies) = 2
  /\ log["cli"] = <<>>

\* C9: in one buildAddon invocation the compile stage is the first to
\* start, asset linking starts only directly after the compile stage has
\* completed successfully, and the manifest merge starts only directly
\* after asset linking has completed successfully.
C9_StagesInOrder ==
  \A p \in Procs :
    /\ \A i \in 1..Len(log[p]) :
         /\ log[p][i] = <<"buildSource", "start">> => i = 1
         /\ log[p][i] = <<"linkDependencyAssets", "start">>
              => i > 1 /\ log[p][i - 1] = <<"buildSource", "ok">>
         /\ log[p][i] = <<"mergeManifest", "start">>
              => i > 1 /\ log[p][i - 1] = <<"linkDependencyAssets", "ok">>
         /\ log[p][i][2] \in {"ok", "error"}
              => i > 1 /\ log[p][i - 1] = <<log[p][i][1], "start">>
    /\ pc[p] \in Stages => log[p] # <<>> /\ Last(log[p]) = <<pc[p], "start">>

C9_Witness ==
  log["cli"] = <<<<"buildSource", "start">>, <<"buildSource", "ok">>,
                 <<"linkDependencyAssets", "start">>, <<"linkDependencyAssets", "ok">>,
                 <<"mergeManifest", "start">>, <<"mergeManifest", "ok">>>>

\* C10: when a stage of buildAddon fails, that failure is the last thing
\* the invocation does: no later stage starts, buildAddon throws to its
\* caller (or the process has exited), and after a failed compile or a
\* failed link the manifest file is still the one the invocation read.
C10_FailureStopsBuild ==
  \A p \in Procs :
    /\ \A i \in 1..Len(log[p]) :
         log[p][i][2] = "error"
           => /\ i = Len(log[p])
              /\ pc[p] = "returned"
              /\ result[p].kind = "thrown"
              /\ log[p][i][1] \in {"buildSource", "linkDependencyAssets"}
                   => manifestFile = manifest[p]
    /\ result[p].kind = "exit"
         => /\ pc[p] = "returned"
            /\ Last(log[p]) = <<"linkDependencyAssets", "start">>
            /\ manifestFile = manifest[p]
    /\ result[p].kind = "success"
         => \A i \in 1..Len(log[p]) : log[p][i][2] # "error"

C10_Witness ==
  /\ pc["cli"] = "returned"
  /\ result["cli"].kind = "thrown"
  /\ IF Len(log["cli"]) = 4
       THEN log["cli"][4] = <<"linkDependencyAssets", "error">>
       ELSE FALSE
  /\ merges = 1
  /\ manifestFile = manifest["cli"]

----------------------------------------------------------------------------
(* Properties of the watcher *)

\* The step in which the watcher's rebuild in flight completes.
RebuildCompletes == wpc = "watching" /\ building /\ ~building'

\* C2, as stated: when a rebuild completes during which change events were
\* delivered, exactly one further rebuild is scheduled.
C2_AsStated ==
  [][(RebuildCompletes /\ arrivedAll > 0)
       => Cardinality(timers') = Cardinality(timers) + 1]_vars

\* C2: when a rebuild completes during which change events were delivered
\* at least MIN_REBUILD_INTERVAL after it started, exactly one further
\* rebuild is scheduled, however many such events there were; it is due
\* MIN_REBUILD_INTERVAL later, outside the cooldown of the completed
\* rebuild, and a scheduled rebuild that comes due while the watcher is idle
\* and outside the cooldown starts a build.
C2_OneFollowUpRebuild ==
  [][/\ (RebuildCompletes /\ arrived > 0)
          => /\ timers' = timers \cup {now + MIN_REBUILD_INTERVAL}
             /\ Cardinality(timers') = Cardinality(timers) + 1
             /\ ~TooSoon(now + MIN_REBUILD_INTERVAL, lastBuildTime')
             /\ ~pendingBuild'
     /\ (Cardinality(timers') < Cardinality(timers) /\ ~building
         /\ ~TooSoon(now, lastBuildTime))
          => /\ building'
             /\ lastBuildTime' = now
             /\ pc'["watch"] = "readManifest"]_vars

C2_Witness ==
  /\ wpc = "watching"
  /\ ~building
  /\ arrived >= 2
  /\ Cardinality(timers) = 1

C4_OneBuildInFlight ==
  ~(pc["watch"] \in Stages /\ pc["cli"] \in Stages)

----------------------------------------------------------------------------
(* Properties of the watcher: change events and the cooldown *)

\* The step in which a change event is delivered.
EventDelivered == burst'.n > burst.n

Times == {k * TickMs : k \in 0..(MaxTicks + 2 * TicksPerInterval)}

RebuildEnded(kinds) ==
  /\ wpc = "watching"
  /\ building
  /\ pc["watch"] = "returned"
  /\ result["watch"].kind \in kinds
  /\ pc'["watch"] = "idle"

\* C34: a watcher rebuild whose buildAddon throws leaves the watcher running
\* with the build-in-flight flag reset to false, and the next change event
\* delivered outside the cooldown window while the watcher is idle starts a
\* new rebuild.
C34_ThrownRebuildKeepsWatcher ==
  [][/\ RebuildEnded({"thrown"}) => (wpc' = "watching" /\ ~building' /\ settled' = "thrown")
     /\ (/\ wpc = "watching" /\ settled = "thrown" /\ ~building
         /\ ~TooSoon(now, lastBuildTime)
         /\ now' = now /\ timers' = timers)
          => (building' /\ cause' = "event" /\ lastBuildTime' = now)]_vars

C34_Witness ==
  /\ wpc = "watching"
  /\ settled = "thrown"
  /\ building
  /\ cause = "event"
  /\ pc["watch"] = "readManifest"

\* C37: while the watcher waits for events, the rebuild-requested flag is
\* set only if a rebuild is in flight; the step that ends a rebuild clears it.
C37_PendingOnlyWhileBuilding ==
  /\ [](wpc = "watching" /\ pendingBuild => building)
  /\ [][(wpc = "watching" /\ building /\ ~building') => ~pendingBuild']_vars

C37_Witness ==
  /\ wpc = "watching"
  /\ ~building
  /\ ~pendingBuild
  /\ arrived > 0
  /\ timers # {}

\* C32, as stated: a rebuild that starts without a change event having been
\* delivered since the previous rebuild started does not exist: every rebuild
\* is started by a change event or follows one delivered after the previous
\* rebuild started.
C32_AsStated ==
  [][(~building /\ building') => (cause' = "event" \/ sinceStart)]_vars

\* C17: a change event delivered less than MIN_REBUILD_INTERVAL after the
\* last rebuild started changes nothing: no rebuild starts, pendingBuild is
\* not set, no timer is armed, and the watcher's other state stays as it is.
C17_EventInCooldownIgnored ==
  [][(EventDelivered /\ now - lastBuildTime < MIN_REBUILD_INTERVAL)
       => UNCHANGED <<wpc, building, pendingBuild, lastBuildTime, timers, watching,
                      buildVars, diskVars>>]_vars

C17_Witness ==
  /\ wpc = "watching"
  /\ building
  /\ ~pendingBuild
  /\ burst.n = 1
  /\ ~burst.cool
  /\ ~burst.idle
  /\ burst.started = 0

\* C18: while the watcher runs, the watched paths are unwatched exactly
\* while a rebuild is in flight: not watched during it, and watched again
\* once it has settled, whether buildAddon built, halted for updates or threw.
C18_UnwatchedExactlyWhileBuilding ==
  wpc = "watching" => (watching <=> ~building)

C18_Witness ==
  /\ wpc = "watching"
  /\ cause = "event"
  /\ ~building
  /\ watching
  /\ linkStatus = "error"

----------------------------------------------------------------------------
(* Properties of asset linking *)

\* C5: whatever linkDependencyAssets has copied, two copies into the same
\* destination directory come from the same dependency.
C5_DistinctDestinations ==
  \A e1, e2 \in projectAssets : e1.dest = e2.dest => e1.from = e2.from

\* C26: whatever the dependencies and whether or not their modules hold a
\* texts directory, no run of the asset linker copies anything to a
\* destination under the project's texts directory.
C26_TextsNeverLinked ==
  \A a \in projectAssets : a.dest[1] # "texts"

C26_Witness ==
  /\ linkStatus = "ok"
  /\ \E a \in projectAssets :
       /\ a.dest[1] = "entities"
       /\ "texts" \in moduleAssets[GetModulePath(a.from)]

\* C24: a run of linkDependencyAssets that follows another with the
\* modules unchanged in between leaves every destination directory of the
\* project with the files it had.
C24_RelinkIdempotent ==
  [][(linkRuns # "none" /\ linkRuns' = "again") => projectTree' = projectTree]_vars

C24_Witness ==
  /\ linkRuns = "again"
  /\ linkStatus = "ok"
  /\ \E d \in DOMAIN projectTree : Cardinality(projectTree[d]) = 2

\* The files the project holds at a destination directory.
Destination(dest) == IF dest \in DOMAIN projectTree THEN projectTree[dest] ELSE {}

\* C25: after a completed run of linkDependencyAssets, for every dependency
\* and every linked asset directory the namespaced destination holds
\* exactly the files the module holds in that directory now. Stated for
\* the dependencies that share their destination with no other (C5).
C25_DestinationMirrorsModule ==
  (linkRuns # "none" /\ linkStatus = "ok")
    => LET dependencies == GetRubedoDependencies(manifestFile)
       IN \A i \in 1..Len(dependencies) :
            LET name == dependencies[i].module_name
            IN (\A k \in 1..Len(dependencies) :
                  Repo(dependencies[k].module_name) = Repo(name) => k = i)
                 => \A dir \in LinkedDirs \ {"texts"} :
                      Destination(NamespaceDir(dir, name)) = SourceFiles(moduleTree, name, dir)

----------------------------------------------------------------------------
(* Properties of the manifest merge *)

\* C6: once mergeManifest has written the manifest, merging again with the
\* same dependency list and dependency manifests writes the same manifest.
C6_MergeIdempotent ==
  merges >= 1 => MergeManifest(manifestFile, VisibleManifests) = manifestFile

C6_Witness ==
  /\ merges = 2
  /\ Len(manifestFile.dependencies.items) >= 3
  /\ Len(manifestFile.capabilities.items) >= 3

\* C36: a merge changes nothing of the manifest but its dependencies and
\* capabilities lists (the other fields, rubedo_dependencies among them, are
\* written back as read), and of those two lists it keeps the host's entries,
\* unmodified and in their order, as a prefix of the merged list.
C36_MergeOnlyAppends ==
  [][merges' # merges =>
       LET old == manifestFile
           new == manifestFile'
       IN /\ DOMAIN new = DOMAIN old
          /\ \A f \in DOMAIN old \ {"dependencies", "capabilities"} : new[f] = old[f]
          /\ IsPrefix(old.dependencies.items, new.dependencies.items)
          /\ IsPrefix(old.capabilities.items, new.capabilities.items)]_vars

C36_Witness ==
  /\ merges = 1
  /\ manifestFile.rest = "host"
  /\ Len(manifestFile.rubedo_dependencies) = 2
  /\ Len(manifestFile.dependencies.items) = 3
  /\ manifestFile.dependencies.items[1] = Entry("m1", "v1")
  /\ manifestFile.capabilities.items = <<"c1", "c2", "c3">>

NoDuplicateModules(items) ==
  \A i, j \in 1..Len(items) : items[i].module_name = items[j].module_name => i = j

NoDuplicateValues(items) ==
  \A i, j \in 1..Len(items) : items[i] = items[j] => i = j

\* C7, as stated: after a merge the manifest's dependencies hold no two
\* entries with one module_name and its capabilities no two equal values.
C7_AsStated ==
  merges >= 1 => /\ NoDuplicateModules(manifestFile.dependencies.items)
                 /\ NoDuplicateValues(manifestFile.capabilities.items)

\* C7: a merge keeps the host manifest's own entries as they are and
\* appends only entries whose key (module_name, capability value) is not
\* yet in the list; so the merged lists have no duplicates whenever the
\* host's own lists have none.
C7_MergeAddsNoDuplicate ==
  [][merges' # merges =>
       LET old == manifestFile
           new == manifestFile'
           od == old.dependencies.items
           nd == new.dependencies.items
           oc == old.capabilities.items
           nc == new.capabilities.items
       IN /\ Len(nd) >= Len(od) /\ SubSeq(nd, 1, Len(od)) = od
          /\ \A j \in (Len(od) + 1)..Len(nd) :
               \A i \in 1..(j - 1) : nd[i].module_name # nd[j].module_name
          /\ Len(nc) >= Len(oc) /\ SubSeq(nc, 1, Len(oc)) = oc
          /\ \A j \in (Len(oc) + 1)..Len(nc) :
               \A i \in 1..(j - 1) : nc[i] # nc[j]
          /\ NoDuplicateModules(od) => NoDuplicateModules(nd)
          /\ NoDuplicateValues(oc) => NoDuplicateValues(nc)]_vars

C7_Witness ==
  /\ merges = 1
  /\ Len(manifestFile.dependencies.items) = 3
  /\ NoDuplicateModules(manifestFile.dependencies.items)
  /\ Len(manifestFile.capabilities.items) = 3
  /\ NoDuplicateValues(manifestFile.capabilities.items)

\* The entries of a dependencies list that declare the identity id.
EntriesOf(items, id) == SelectSeq(items, LAMBDA e : e.module_name = id)

\* What the manifest of the i-th rubedo dependency declares, if it is there.
DeclaredBy(m, dms, i) ==
  LET dm == dms[GetModulePath(GetRubedoDependencies(m)[i].module_name)]
  IN IF dm.exists /\ dm.dependencies.present THEN dm.dependencies.items ELSE <<>>

RECURSIVE DeclaredFrom(_, _, _)
DeclaredFrom(m, dms, i) ==
  IF i > Len(GetRubedoDependencies(m)) THEN <<>>
  ELSE DeclaredBy(m, dms, i) \o DeclaredFrom(m, dms, i + 1)

\* Every declaration of an external dependency in the order the merge sees
\* them: the host's, then those of the dependencies in rubedo_dependencies order.
Declarations(m, dms) == m.dependencies.items \o DeclaredFrom(m, dms, 1)

Swapped(m) ==
  [m EXCEPT !.rubedo_dependencies = <<m.rubedo_dependencies[2], m.rubedo_dependencies[1]>>]

\* C27, as stated: of an identity declared with different versions the
\* merged manifest keeps exactly one entry, the first one seen.
C27_AsStated ==
  [][merges' # merges =>
       LET all == Declarations(manifestFile, VisibleManifests)
           kept == manifestFile'.dependencies.items
       IN \A n, k \in 1..Len(all) :
            (all[n].module_name = all[k].module_name /\ all[n].version # all[k].version)
              => EntriesOf(kept, all[n].module_name)
                   = <<EntriesOf(all, all[n].module_name)[1]>>]_vars

\* C27: of the declarations of one identity the merge keeps the first one
\* seen, and only that one where the host declares the identity at most
\* once; when two dependencies declare an identity the host does not, with
\* different versions, the first dependency's version is kept, and the
\* other's once the two are swapped in rubedo_dependencies.
C27_FirstSeenKept ==
  [][merges' # merges =>
       LET m == manifestFile
           dms == VisibleManifests
           all == Declarations(m, dms)
           kept == manifestFile'.dependencies.items
       IN /\ \A n \in 1..Len(all) :
               LET id == all[n].module_name
               IN /\ EntriesOf(kept, id) # <<>>
                  /\ EntriesOf(kept, id)[1] = EntriesOf(all, id)[1]
                  /\ Len(EntriesOf(m.dependencies.items, id)) <= 1
                       => Len(EntriesOf(kept, id)) = 1
          /\ Len(GetRubedoDependencies(m)) = 2 =>
               \A n \in 1..Len(DeclaredBy(m, dms, 1)) :
                 LET id == DeclaredBy(m, dms, 1)[n].module_name
                     one == EntriesOf(DeclaredBy(m, dms, 1), id)
                     two == EntriesOf(DeclaredBy(m, dms, 2), id)
                 IN (/\ EntriesOf(m.dependencies.items, id) = <<>>
                     /\ two # <<>>
                     /\ one[1] # two[1])
                      => /\ EntriesOf(kept, id) = <<one[1]>>
                         /\ EntriesOf(MergeManifest(Swapped(m), dms).dependencies.items, id)
                              = <<two[1]>>]_vars

C27_Witness ==
  /\ merges = 1
  /\ GetRubedoDependencies(manifestFile) = <<Dep(NameAX, Main), Dep(NameAY, Main)>>
  /\ depManifest[GetModulePath(NameAX)].dependencies = Present(<<Entry("m1", "v1"), Entry("m3", "v1")>>)
  /\ depManifest[GetModulePath(NameAY)].dependencies = Present(<<Entry("m3", "v1"), Entry("m1", "v2")>>)
  /\ manifestFile.dependencies = Present(<<Entry("m2", "v1"), Entry("m1", "v1"), Entry("m3", "v1")>>)

----------------------------------------------------------------------------
(* Properties of the version classification *)

\* Three groups of digits separated by two dots, and nothing else.
ThreeDottedDigitGroups(v) ==
  \E i, j \in 1..Len(v) :
    /\ 1 < i /\ i + 1 < j /\ j < Len(v)
    /\ v[i] = "." /\ v[j] = "."
    /\ \A k \in 1..Len(v) : k \notin {i, j} => v[k] \in Digit

\* Exactly n characters, each a digit or one of a to f.
HexDigits(v, n) ==
  /\ Len(v) = n
  /\ \A k \in 1..n : v[k] \in Digit \cup {"a", "b", "c", "d", "e", "f"}

CommitShape(v) == HexDigits(v, 40) \/ HexDigits(v, 7) \/ HexDigits(v, 8)

----------------------------------------------------------------------------
(* Properties of the module store *)

\* A step in which rubedo install or rubedo update ran to its end.
Materialized == ipc = "idle" /\ ipc' \in {"installed", "updated"}

\* What a localPath override left at the module path: a symbolic link, a
\* junction, or the copy made when neither could be created.
OverrideLeft(st) == st.kind \in {"symlink", "junction"} \/ st.origin = "copy"

\* C11: when the module path holds what a localPath override left (link,
\* junction or copy, target present or not) and the dependency is declared
\* without override, a successful install or update has removed it and put
\* a clone from origin in its place.
C11_OverrideReplacedByClone ==
  [][(Materialized /\ localPath = "" /\ OverrideLeft(repo))
       => (/\ repo'.kind = "dir"
           /\ repo'.origin = "clone"
           /\ \E i \in 1..Len(gitLog') : gitLog'[i] = <<"clone">>)]_vars

\* The commit the tag v<version> of origin points to.
TagCommit(v, st) ==
  LET i == CHOOSE j \in 1..Len(st.tags) : st.tags[j].name = TagName(v)
  IN st.tags[i].commit

TagInstallCommands(v) ==
  << <<"clone">>, <<"checkout", TagsPrefix \o TagName(v)>>, <<"npm install">> >>

\* C12: installing a Tag whose module path is absent runs git clone and
\* then git checkout tags/v<x.y.z>, in that order and nothing before them;
\* when the install succeeds, HEAD is the commit the tag points to.
C12_TagInstallClonesThenChecksOut ==
  [][(/\ ipc = "idle" /\ ipc' \in {"installed", "failed"}
      /\ localPath = "" /\ MatchesTag(version) /\ repo.kind = "absent")
       => (/\ IsPrefix(gitLog', TagInstallCommands(version))
           /\ Len(gitLog') >= 1
           /\ ipc' = "installed"
                => /\ Len(gitLog') >= 2
                   /\ repo'.branch = Detached
                   /\ repo'.head = TagCommit(version, repo'))]_vars

C12_Witness ==
  /\ ipc = "installed"
  /\ version = V100
  /\ localPath = ""
  /\ gitLog = SubSeq(TagInstallCommands(V100), 1, 2)
  /\ repo.tags[1].annotated
  /\ repo.head = "1"

\* The module path is free or holds a clone of origin.
FreeOrClone(st) == st.kind = "absent" \/ (st.kind = "dir" /\ st.origin = "clone")

\* C13: a successful install or update of 'latest' leaves the module on the
\* default branch of origin at its upstream head, whatever was checked out
\* before.
C13_LatestOnDefaultBranchAtHead ==
  [][(Materialized /\ localPath = "" /\ version = Latest /\ FreeOrClone(repo))
       => (/\ repo'.branch = DefaultBranch
           /\ repo'.head = Upstream[DefaultBranch])]_vars

\* C14: for a Tag x.y.z that origin has, the staleness check on a clone
\* answers stale exactly when the commit at HEAD is not the commit the tag
\* v<x.y.z> points to.
C14_TagStaleIffCommitsDiffer ==
  [][(/\ ipc = "idle" /\ ipc' = "checked"
      /\ localPath = "" /\ MatchesTag(version)
      /\ repo.kind = "dir" /\ repo.origin = "clone"
      /\ TagNamed(repo, TagName(version)) # {})
       => (stale' <=> repo.head # TagCommit(version, repo))]_vars

\* C15: a successful update to a Ref that is the branch checked out in the
\* clone leaves that branch at its upstream head.
C15_RefUpdateNotBehind ==
  [][(/\ ipc = "idle" /\ ipc' = "updated"
      /\ localPath = "" /\ version \in DOMAIN Upstream
      /\ repo.kind = "dir" /\ repo.origin = "clone"
      /\ repo.branch = version)
       => (/\ repo'.branch = version
           /\ repo'.head = Upstream[version])]_vars

\* An identity of exactly two non-empty segments, owner/name.
WellFormed(name) ==
  /\ Len(Split(name)) = 2
  /\ Split(name)[1] # <<>>
  /\ Split(name)[2] # <<>>

\* C21: an install or update of a dependency whose identity is not a
\* well-formed owner/name ends in process.exit(1) before any command is run
\* on the module path, which is left as it was.
C21_MalformedIdentityAborts ==
  [][(ipc = "idle" /\ ipc' \in {"installed", "updated", "failed", "exit"}
        /\ ~WellFormed(depName))
       => (ipc' = "exit" /\ gitLog' = <<>> /\ repo' = repo)]_vars

\* No function is called again while a call of it is in progress.
NoCycle == \A i, j \in 1..Len(frames) : frames[i] = frames[j] => i = j

\* C39: materializing one dependency terminates whatever lies at the module
\* path: cloneDependency and updateDependency never call each other in a
\* cycle (no more than one call of each is ever in progress), and every
\* call that was started ends, by returning, throwing or ending the process.
C39_MaterializeTerminates ==
  /\ [](NoCycle /\ Len(frames) <= 2)
  /\ (frames # <<>>) ~> (frames = <<>> \/ ipc = "exit")

C39_Witness ==
  /\ frames = <<"updateDependency", "cloneDependency">>
  /\ ipc = "updated"
  /\ gitLog[1] = <<"remove">>
  /\ repo.kind = "dir"

\* C38: an install or update of a dependency whose declared local override
\* path does not exist ends in process.exit(1), and nothing is removed,
\* linked or copied: the module path is left exactly as it was.
C38_MissingOverrideAborts ==
  [][(ipc = "idle" /\ ipc' \in {"installed", "updated", "failed", "exit"}
        /\ localPath = "/gone")
       => (ipc' = "exit" /\ gitLog' = <<>> /\ repo' = repo)]_vars

C38_Witness ==
  /\ ipc = "exit"
  /\ localPath = "/gone"
  /\ WellFormed(depName)
  /\ repo.kind = "dir"
  /\ repo.origin = "clone"

\* C28: an install or update of a dependency with a localPath, run when
\* the module path is a link (symbolic link or junction) to that localPath,
\* runs no command on the module path and leaves it as it is.
C28_RelinkOfSameOverrideIsNoOp ==
  [][(/\ ipc = "idle" /\ ipc' \in {"installed", "updated", "failed", "exit"}
      /\ localPath # ""
      /\ repo.kind \in {"symlink", "junction"}
      /\ repo.target = localPath)
       => (gitLog' = <<>> /\ repo' = repo)]_vars

C28_Witness ==
  /\ ipc \in {"installed", "updated"}
  /\ localPath = "/local"
  /\ repo.kind = "junction"
  /\ repo.target = localPath
  /\ gitLog = <<>>

\* A staleness check of a dependency without localPath on a work tree.
CheckOfCheckout ==
  /\ ipc = "idle" /\ ipc' \in {"checked", "checked offline"}
  /\ localPath = ""
  /\ repo.kind = "dir" /\ repo.isRepo

\* C29, as stated: for a version that is a full or short commit hash, the
\* staleness check on a work tree reports stale exactly when the hash of
\* HEAD does not start with the version.
C29_AsStated ==
  [][(CheckOfCheckout /\ (MatchesFullHash(version) \/ MatchesShortHash(version)))
       => (stale' <=> SubSeq(Hash(repo.head), 1, Len(version)) # version)]_vars

\* C29: for a version that is a full or short commit hash, the staleness
\* check on a work tree reports stale exactly when the hash of HEAD does
\* not start with the version, provided the fetch from origin succeeds;
\* when it fails the check reports stale.
C29_CommitStaleIffHeadNotPrefixed ==
  [][(CheckOfCheckout /\ (MatchesFullHash(version) \/ MatchesShortHash(version)))
       => IF ipc' = "checked"
            THEN stale' <=> SubSeq(Hash(repo.head), 1, Len(version)) # version
            ELSE stale' = TRUE]_vars

C29_Witness ==
  /\ ipc = "checked"
  /\ localPath = ""
  /\ version = Rep("2", 7)
  /\ repo.kind = "dir" /\ repo.isRepo
  /\ repo.head = "2"
  /\ stale = FALSE

\* The version is a ref: not latest, not x.y.z, not a hash.
IsRef(v) ==
  /\ v # Latest /\ ~MatchesTag(v)
  /\ ~MatchesFullHash(v) /\ ~MatchesShortHash(v)

\* C30, as stated: for a version that is a ref the staleness check on a
\* work tree reports stale exactly when the current branch is not the ref
\* or, being the ref, is behind its upstream.
C30_AsStated ==
  [][(CheckOfCheckout /\ IsRef(version))
       => (stale' <=> (\/ repo.branch # version
                       \/ repo.head # Upstream[version]))]_vars

\* C30: for a version that is a ref the staleness check on a work tree
\* reports stale exactly when the current branch is not the ref or, being
\* the ref, is behind its upstream, provided the fetch from origin
\* succeeds; when it fails the check reports stale.
C30_RefStaleIffOffBranchOrBehind ==
  [][(CheckOfCheckout /\ IsRef(version))
       => IF ipc' = "checked"
            THEN stale' <=> (\/ repo.branch # version
                             \/ repo.head # Upstream[version])
            ELSE stale' = TRUE]_vars

C30_Witness ==
  /\ ipc = "checked"
  /\ localPath = ""
  /\ version = Dev
  /\ repo.kind = "dir" /\ repo.isRepo
  /\ repo.branch = Dev
  /\ repo.head = "3"
  /\ stale = TRUE

\* The commands of an install or update include npm install.
RanNpmInstall(cmds) == \E k \in 1..Len(cmds) : cmds[k] = <<"npm install">>

\* checkForUpdates over the one declared dependency: it is listed exactly
\* when hasUpdates answered true.
DependenciesWithUpdates(answer) ==
  IF answer THEN << [module_name |-> StoreModule, version |-> version, localPath |-> localPath] >>
  ELSE <<>>

\* The git comparison of hasUpdates is reached and cannot read the git state:
\* the fetch fails for want of network, or the directory is no repository.
GitUnreadable(st, offline) ==
  /\ PathExists(st)
  /\ localPath = ""
  /\ ~IsSymbolicLink(st)
  /\ (offline \/ ~st.isRepo)

\* C35: the staleness check answers stale for a dependency whose store path
\* is absent and for one whose git state cannot be read, so checkForUpdates
\* lists it and a build that runs the check halts for updates.
C35_CheckFailsSafe ==
  [][(/\ ipc = "idle" /\ ipc' \in {"checked", "checked offline"}
      /\ (~PathExists(repo) \/ GitUnreadable(repo, ipc' = "checked offline")))
       => (/\ stale' = TRUE
           /\ UpdatesPending(DependenciesWithUpdates(stale')))]_vars

C35_Witness ==
  /\ ipc = "checked offline"
  /\ GitUnreadable(repo, TRUE)
  /\ repo.isRepo
  /\ ~Behind(repo)
  /\ stale = TRUE

\* C33, as stated: right after install or update completed successfully for
\* the declared dependency, with the network reachable and nothing changed
\* since, the staleness check does not report the dependency as stale, for
\* every version variant and every local override.
C33_ConvergesWithStalenessCheck ==
  ipc \in {"installed", "updated"} => ~HasUpdatesAt(version, localPath, repo, TRUE)

\* C31: an install or update runs npm install in the module only with
\* RUBEDO_MODULES_DIR set and for a dependency without localPath; with it
\* set, every clone or update that got through its checkout runs it.
C31_NpmInstallOnlyWithModulesDir ==
  [][(ipc = "idle" /\ ipc' \in {"installed", "updated", "failed", "exit"})
       => /\ RanNpmInstall(gitLog') => (modulesDir /\ localPath = "")
          /\ (modulesDir /\ localPath = "" /\ ipc' \in {"installed", "updated"})
               => RanNpmInstall(gitLog')]_vars

C31_Witness ==
  /\ ipc = "installed"
  /\ modulesDir
  /\ RanNpmInstall(gitLog)

----------------------------------------------------------------------------
(* Properties of install and update *)

\* C22: a command handles its dependencies one at a time in manifest order;
\* when the handling of one fails (throws, or exits the process) nothing
\* is done for any later one and the command does not report success.
C22_AbortsAtFirstFailure ==
  \A p \in Commands :
    LET r == run[p]
    IN /\ Len(r.log) <= Len(r.deps)
       /\ \A k \in 1..Len(r.log) :
            /\ r.log[k].name = r.deps[k].module_name
            /\ r.log[k].status # "done"
                 => k = Len(r.log) /\ r.status \in {"threw", "exit"} /\ ~r.inside
       /\ r.status = "done" => Len(r.log) = Len(r.deps)
       /\ r.inside => r.at = Len(r.log) + 1

C22_Witness ==
  \E p \in Commands :
    /\ run[p].status = "threw"
    /\ Len(run[p].log) < Len(run[p].deps)
    /\ run[p].log[Len(run[p].log)].cmds # <<>>

\* C23: no two calls of cloneDependency / updateDependency are in flight on
\* the same module path.
C23_OneOperationPerPath ==
  \A p, q \in Commands :
    (/\ p # q
     /\ run[p].inside
     /\ run[q].inside)
      => GetModulePath(run[p].deps[run[p].at].module_name)
           # GetModulePath(run[q].deps[run[q].at].module_name)

----------------------------------------------------------------------------
(* Properties of the build command *)

\* The step in which buildCommand takes what buildAddon returned or threw.
CommandSettles == pc["cli"] = "returned" /\ pc'["cli"] = "idle"

\* C19: a halt for pending updates is a return of buildAddon, not a throw,
\* and lists at least one dependency; buildCommand answers it with the
\* update message, which it gives for no other outcome, and ends the
\* process with an error for a thrown error only.
C19_UpdatesPendingIsNotFailure ==
  [][/\ \A p \in Procs :
          result'[p].kind = "updates"
            => /\ pc'[p] = "returned"
               /\ Len(result'[p].updatedDependencies) > 0
     /\ CommandSettles
          => /\ cmdOut' = "updateMessage" <=> result["cli"].kind = "updates"
             /\ cmdOut' = "builtOk" <=> result["cli"].kind = "success"
             /\ cmdOut' = "exit1" <=> result["cli"].kind \in {"thrown", "exit"}]_vars

C19_Witness ==
  /\ cmdOut = "updateMessage"
  /\ pc["cli"] = "idle"
  /\ projectAssets = {}
  /\ merges = 0

\* C20: after a build that halted for pending updates, `rubedo build
\* --skip-update-check` calls buildAddon with skipUpdateCheck set.
C20_SkipOptionCarried ==
  [][(/\ cmdOut = "updateMessage"
      /\ pc["cli"] = "idle"
      /\ argv' = SkipUpdateCheckFlag
      /\ cmdOut' # cmdOut)
       => (/\ pc'["cli"] = "readManifest"
           /\ opts'["cli"])]_vars

====
